---- MODULE Spec2Model ----
(***************************************************************************)
(* A model of the WAPI_Holidays repository: the holiday storage            *)
(* (services.py, tables holidays and regions), the aggregation pass and    *)
(* the multi-country batch (services.py, bot.py, main.py), the chat flows  *)
(* of the Telegram bot (bot.py), the next-month computations (bot.py,      *)
(* main.py, email_sender.py), the email digest sender (email_sender.py),   *)
(* the Excel report (excel_reporter.py), the API-Ninjas source             *)
(* (services.py), the LLM client and the construction of the service       *)
(* (services.py) and the monthly job with its daily check (bot.py).        *)
(*                                                                         *)
(* Each component has its own specification over its own variables; the   *)
(* variables of the other components stay at their initial values.        *)
(*   SpecSave  storage: any sequence of _save_verified_holiday calls and   *)
(*             get_holidays_for_date queries                               *)
(*   Spec      the aggregation pass and the batch over the country list    *)
(*   SpecChat  the two conversation flows of one chat                      *)
(*   SpecDate  the next-month computations, for every current date         *)
(*   SpecEcon  the same batch with every kind of response economics        *)
(*   SpecMail  send_holiday_email_to_all, for any database of the digest   *)
(*   SpecReport  generate_holidays_report, for any database of the report  *)
(*   SpecNinjas  _get_from_ninjas, for any payload of the source           *)
(*   SpecClient  authenticate, run_scenario and HolidayService(), for any  *)
(*             answers of the LLM service                                  *)
(*   SpecJob   the daily check and the steps of the monthly job            *)
(*   SpecSystem  batches interleaved with date queries and reports         *)
(*   SpecRegions  repeated saves of a triple with differing region lists   *)
(*   SpecDaily  send_daily_holidays_notification, for any database         *)
(*   SpecScheduler  starts and restarts of main() around the monthly job   *)
(*   SpecFiles  the job and the chat handler sharing the reports directory *)
(***************************************************************************)
EXTENDS Integers, Sequences, FiniteSets, Bags, TLC

VARIABLES
    \* ---- storage (holidays.db) ----
    holidays,            \* table holidays: row id = position (AUTOINCREMENT, no delete)
    regions,             \* table regions: bag of [holiday_id, region_name] rows
    last_save,           \* the last _save_verified_holiday call: its arguments and outcome
    last_query,          \* the last get_holidays_for_date call: its argument and result
    \* ---- the batch (bot.run_monthly_data_collection, main.main) ----
    countries,           \* config.COUNTRIES
    driver,              \* "none", "bot" (the monthly job) or "main" (the collector)
    pc,                  \* the position of the running batch
    idx,                 \* index in countries of the loop's current country
    attempted,           \* the countries process_holidays_for_period was called for
    outcomes,            \* how each of these calls ended
    \* ---- one HolidayService instance and its running pass ----
    grand_total_tokens,
    grand_total_price,   \* in thousandths of a dollar
    raw_holidays,        \* what the three sources returned, until dedup has run
    fetches,             \* how the three source requests of the pass ended
    holidays_to_check,   \* the length of the dedup list
    cand,                \* index in the dedup list of the next candidate
    llm,                 \* the responses run_scenario returned to this instance
    last_check,          \* the most recent fact-check: its response and what was done
    verdicts,            \* the verdicts of the running pass, in order
    pass_rows_before,    \* the country's holidays rows when the pass began
    \* ---- one chat of the Telegram bot ----
    holiday_conv,        \* the state of holiday_check_conv
    report_conv,         \* the state of report_conv
    user_data,           \* context.user_data, shared by the two conversations
    last_update,         \* the last update a handler took, and what the handler did
    \* ---- the next-month computations ----
    today,               \* date.today()
    job_period,          \* what bot.get_next_date_for_job returned
    mail_period,         \* what email_sender.get_next_month_dates returned
    main_period,         \* what main.get_next_date returned
    \* ---- send_holiday_email_to_all ----
    recipients,          \* config.EMAIL_RECIPIENTS
    mail_pc,             \* "idle", "sending" (in the loop) or "returned"
    mail_args,           \* (year, month_name, start_date, end_date) of the call
    db_reads,            \* reads of the database by fetch_holidays_for_period
    fetched,             \* how that read ended
    smtp_attempts,       \* SMTP connections opened by _send_email
    success_count,
    sent_index,          \* index in recipients of the loop's next address
    email_result,        \* the dict the call returned
    smtp_log,            \* the _send_email calls of the loop: recipient and result
    digest,              \* the country blocks of the letter's HTML body
    \* ---- excel_reporter.generate_holidays_report ----
    report,              \* the last call: its arguments, the sheet and the path returned
    files,               \* the report files in config.REPORTS_DIR: path and who wrote it
    callers,             \* the job and the chat handler between generating and removing
    \* ---- HolidayService._get_from_ninjas ----
    ninjas_call,         \* the last call: the payload, the period and the result
    \* ---- NiktaAPIClient, HolidayService.__init__ ----
    nikta_client,        \* the session header, the call in progress and its requests
    \* ---- bot.scheduled_monthly_task, run_monthly_data_collection ----
    job,                 \* the tick of the daily check and the steps of the job
    \* ---- bot.send_daily_holidays_notification ----
    daily,               \* the last run: the text built, what was posted and logged
    \* ---- bot.main ----
    job_queue            \* the jobs of application.job_queue and the starts so far

dbVars == <<holidays, regions>>
saveVars == <<holidays, regions, last_save, last_query>>
batchVars == <<countries, driver, pc, idx, attempted, outcomes>>
passVars == <<grand_total_tokens, grand_total_price, raw_holidays, fetches, holidays_to_check,
              cand, llm, last_check, verdicts, pass_rows_before>>
chatVars == <<holiday_conv, report_conv, user_data, last_update>>
clockVars == <<today, job_period, mail_period, main_period>>
mailVars == <<recipients, mail_pc, mail_args, db_reads, fetched, smtp_attempts,
              success_count, sent_index, email_result, smtp_log, digest>>
reportVars == <<report, files, callers>>
sourceVars == <<ninjas_call>>
clientVars == <<nikta_client>>
jobVars == <<job, daily, job_queue>>

(***************************************************************************)
(* Storage: services.py, HolidayService._init_db, _save_verified_holiday,  *)
(* get_holidays_for_date.                                                  *)
(***************************************************************************)

\* Values the LLM payloads and the configuration are drawn from.
CountryCodes == {"FR", "DE"}
HolidayDates == {"2025-12-25", "2025-12-26"}
HolidayNames == {"Christmas"}
RegionLists == {<< >>, <<"BY">>, <<"BY", "BY">>}

\* A verified payload (the dict parsed from the fact-check response): keys is
\* the set of keys the dict holds; an absent key's field is "" or << >>.
PayloadKeys == {"date", "name", "regions"}

AllPayloads ==
    { [keys |-> K,
       date |-> IF "date" \in K THEN d ELSE "",
       name |-> IF "name" \in K THEN n ELSE "",
       regions |-> IF "regions" \in K THEN r ELSE << >>]
      : K \in SUBSET PayloadKeys, d \in HolidayDates, n \in HolidayNames,
        r \in RegionLists }

\* The payloads the model draws: every payload that has its date and name,
\* and the ones lacking either with no regions key.
Payloads ==
    { p \in AllPayloads : {"date", "name"} \subseteq p.keys \/ "regions" \notin p.keys }

\* Stands for a regions value that is truthy and no list (a number): iterating
\* it raises TypeError.
NotIterable == <<"not iterable">>

HolidayRow(country_code, holiday_data) ==
    [country_code |-> country_code,
     holiday_date |-> holiday_data.date,
     holiday_name |-> holiday_data.name]

\* INSERT into a holidays table that has no UNIQUE constraint on the triple.
InsertHolidayNoUnique(tbl, row) ==
    [tbl |-> Append(tbl, row), integrity_error |-> FALSE]

\* DELETE FROM holidays before the INSERT: the table holds the last row only.
DeleteThenInsertHoliday(tbl, row) ==
    [tbl |-> <<row>>, integrity_error |-> FALSE]

\* INSERT OR IGNORE INTO holidays under UNIQUE(country_code, holiday_date,
\* holiday_name): a row whose triple is present is ignored, with no error.
InsertOrIgnoreHoliday(tbl, row) ==
    [tbl |-> IF \E i \in DOMAIN tbl : tbl[i] = row THEN tbl ELSE Append(tbl, row),
     integrity_error |-> FALSE]

\* SELECT id FROM holidays WHERE triple = ?; fetchone(): 0 stands for None.
SelectHolidayId(tbl, row) ==
    IF \E i \in DOMAIN tbl : tbl[i] = row
    THEN CHOOSE i \in DOMAIN tbl :
            tbl[i] = row /\ \A j \in DOMAIN tbl : tbl[j] = row => i <= j
    ELSE 0

RegionRow(holiday_id, region_name) ==
    [holiday_id |-> holiday_id, region_name |-> region_name]

\* INSERT OR IGNORE INTO regions under UNIQUE(holiday_id, region_name).
InsertOrIgnoreRegion(rtbl, row) ==
    IF BagIn(row, rtbl) THEN rtbl ELSE rtbl (+) SetToBag({row})

\* A save that replaces the holiday's region rows by the list given.
ReplaceRegions(rtbl, holiday_id, region_list) ==
    SetToBag({ x \in BagToSet(rtbl) : x.holiday_id # holiday_id }
             \cup { [holiday_id |-> holiday_id, region_name |-> region_list[k]]
                    : k \in DOMAIN region_list })

\* cursor.executemany over regions_to_insert, in list order.
RECURSIVE ExecuteManyRegions(_, _, _)
ExecuteManyRegions(rtbl, holiday_id, region_list) ==
    IF region_list = << >> THEN rtbl
    ELSE ExecuteManyRegions(
            InsertOrIgnoreRegion(rtbl, RegionRow(holiday_id, Head(region_list))),
            holiday_id, Tail(region_list))

\* A connection that only closes on leaving the with block: nothing is committed.
WithExitNoCommit(committed, working, raised) == committed

\* Leaving `with sqlite3.connect(...) as conn`: the connection commits when the
\* block ends without an exception (a return included) and rolls back otherwise.
WithExit(committed, working, raised) ==
    IF raised THEN committed ELSE working

Db(hs, rs) == [holidays |-> hs, regions |-> rs]

SaveResult(db, log) == [db |-> db, log |-> log]

\* A save that subscripts only the date and reads the name with .get().
HasDateOnly(holiday_data) == "date" \in holiday_data.keys

\* holiday_data['date'] and holiday_data['name'], the parameters of the INSERT,
\* do not raise KeyError.
HasRequiredFields(holiday_data) == {"date", "name"} \subseteq holiday_data.keys

\* _save_verified_holiday: the database after the call, and what the call
\* logged: "saved" (regions written), "no_regions" and "no_id" (the two early
\* returns), "KeyError" and "sqlite3.Error" (the two except clauses), or
\* "TypeError", which no except clause of the function catches.
SaveVerifiedHoliday(db, country_code, holiday_data) ==
    IF ~HasRequiredFields(holiday_data)
    THEN \* KeyError building the INSERT parameters: caught, nothing written
         SaveResult(WithExit(db, db, TRUE), "KeyError")
    ELSE
      LET row == HolidayRow(country_code, holiday_data)
          ins == InsertOrIgnoreHoliday(db.holidays, row)
          hs1 == ins.tbl
          holiday_id == SelectHolidayId(hs1, row)
          regions_list == IF "regions" \in holiday_data.keys
                          THEN holiday_data.regions ELSE << >>
      IN  IF ins.integrity_error
          THEN SaveResult(WithExit(db, db, TRUE), "sqlite3.Error")
          ELSE IF holiday_id = 0
          THEN SaveResult(WithExit(db, Db(hs1, db.regions), FALSE), "no_id")
          ELSE IF regions_list = << >>
          THEN \* early return before conn.commit()
               SaveResult(WithExit(db, Db(hs1, db.regions), FALSE), "no_regions")
          ELSE IF regions_list = NotIterable
          THEN \* the list comprehension raises inside the with block
               SaveResult(WithExit(db, Db(hs1, db.regions), TRUE), "TypeError")
          ELSE LET rs1 == ExecuteManyRegions(db.regions, holiday_id, regions_list)
               IN  \* conn.commit(), then the block ends
                   SaveResult(WithExit(Db(hs1, rs1), Db(hs1, rs1), FALSE), "saved")

\* The ids of the holidays rows of a triple.
HolidayIds(hs, country_code, holiday_date, holiday_name) ==
    { i \in DOMAIN hs : hs[i] = [country_code |-> country_code,
                                 holiday_date |-> holiday_date,
                                 holiday_name |-> holiday_name] }

\* The region_name values the LEFT JOIN yields for a set of holiday ids, as a
\* bag (SQL leaves the order of the joined rows of one holiday open).
RegionBag(rs, ids) ==
    LET names == { r.region_name : r \in { x \in BagToSet(rs) : x.holiday_id \in ids } }
    IN  [ n \in names |->
            LET rows == { x \in BagToSet(rs) : x.holiday_id \in ids /\ x.region_name = n }
                RECURSIVE Sum(_)
                Sum(S) == IF S = {} THEN 0
                          ELSE LET x == CHOOSE y \in S : TRUE
                               IN  CopiesIn(x, rs) + Sum(S \ {x})
            IN  Sum(rows) ]

\* get_holidays_for_date: country -> holiday name -> regions.
GetHolidaysForDate(hs, rs, target_date) ==
    LET rows == { i \in DOMAIN hs : hs[i].holiday_date = target_date }
        codes == { hs[i].country_code : i \in rows }
    IN  [ c \in codes |->
            LET names == { hs[i].holiday_name : i \in { j \in rows : hs[j].country_code = c } }
            IN  [ n \in names |-> RegionBag(rs, HolidayIds(hs, c, target_date, n)) ] ]

EmptyPayload == [keys |-> {}, date |-> "", name |-> "", regions |-> << >>]

\* last_save: the arguments of the most recent _save_verified_holiday call,
\* what it logged, and what the tables held before it.
NoSave ==
    [called |-> FALSE, country_code |-> "", holiday_data |-> EmptyPayload,
     log |-> "", rows_before |-> 0, region_rows_before |-> 0,
     existed |-> FALSE, had_regions |-> FALSE, pairs_existed |-> FALSE]

\* last_query is the value get_holidays_for_date returned when that call is the
\* most recent operation on the storage.
NoQuery == [called |-> FALSE, target_date |-> "", result |-> << >>]

InitSave ==
    /\ holidays = << >>
    /\ regions = EmptyBag
    /\ last_save = NoSave
    /\ last_query = NoQuery

\* One call of _save_verified_holiday, from any pass or service instance.
Save(country_code, holiday_data) ==
    LET db == Db(holidays, regions)
        res == SaveVerifiedHoliday(db, country_code, holiday_data)
        ids == HolidayIds(holidays, country_code, holiday_data.date, holiday_data.name)
    IN  /\ holidays' = res.db.holidays
        /\ regions' = res.db.regions
        /\ last_save' =
             [called |-> TRUE,
              country_code |-> country_code,
              holiday_data |-> holiday_data,
              log |-> res.log,
              rows_before |-> Len(holidays),
              region_rows_before |-> BagCardinality(regions),
              existed |-> ids # {},
              had_regions |-> \E x \in BagToSet(regions) : x.holiday_id \in ids,
              pairs_existed |->
                  \A k \in DOMAIN holiday_data.regions :
                      \E i \in ids : BagIn(RegionRow(i, holiday_data.regions[k]), regions)]
        /\ last_query' = NoQuery
        /\ UNCHANGED <<batchVars, passVars, chatVars, clockVars, mailVars, reportVars, sourceVars, clientVars, jobVars>>

\* One call of get_holidays_for_date.
Query(target_date) ==
    /\ last_query' = [called |-> TRUE, target_date |-> target_date,
                      result |-> GetHolidaysForDate(holidays, regions, target_date)]
    /\ UNCHANGED <<holidays, regions, last_save>>
    /\ UNCHANGED <<batchVars, passVars, chatVars, clockVars, mailVars, reportVars, sourceVars, clientVars, jobVars>>

\* Repeated saves of a few triples whose region lists differ from save to save.
RegionPayloads ==
    { [keys |-> K, date |-> "2025-12-25", name |-> "Christmas",
       regions |-> IF "regions" \in K THEN r ELSE << >>]
      : K \in {PayloadKeys, PayloadKeys \ {"regions"}},
        r \in {<< >>, <<"BY">>, <<"BW">>, <<"BY", "BW">>, <<"BW", "BW">>} }

NextRegions ==
    \/ \E c \in CountryCodes, p \in RegionPayloads : Save(c, p)
    \/ \E d \in HolidayDates : Query(d)

NextSave ==
    \/ \E c \in CountryCodes, p \in Payloads : Save(c, p)
    \/ \E d \in HolidayDates : Query(d)

(***************************************************************************)
(* The aggregation pass: services.py, process_holidays_for_period, and the *)
(* batch over config.COUNTRIES: bot.py run_monthly_data_collection and     *)
(* main.py main.                                                           *)
(***************************************************************************)

MaxCandidates == 2    \* the longest dedup list

\* config.COUNTRIES, as read from the Countries sheet.
CountryLists == {<< >>, <<"FR">>, <<"FR", "DE">>, <<"FR", "FR">>}

\* Python values and strings: a string is the sequence of its characters.
UpperLetters == <<"A", "B", "C", "D", "E", "F", "G", "H", "I", "J", "K", "L", "M",
                  "N", "O", "P", "Q", "R", "S", "T", "U", "V", "W", "X", "Y", "Z">>
LowerLetters == <<"a", "b", "c", "d", "e", "f", "g", "h", "i", "j", "k", "l", "m",
                  "n", "o", "p", "q", "r", "s", "t", "u", "v", "w", "x", "y", "z">>

PyBool(b) == [type |-> "bool",
              text |-> IF b THEN <<"T", "r", "u", "e">> ELSE <<"F", "a", "l", "s", "e">>]
PyNone == [type |-> "NoneType", text |-> <<"N", "o", "n", "e">>]
PyString(chars) == [type |-> "str", text |-> chars]

\* str(value)
PyStr(value) == value.text

LowerChar(c) ==
    IF \E i \in DOMAIN UpperLetters : UpperLetters[i] = c
    THEN LowerLetters[CHOOSE i \in DOMAIN UpperLetters : UpperLetters[i] = c]
    ELSE c

\* s.lower()
PyLower(s) == [i \in DOMAIN s |-> LowerChar(s[i])]

\* bool(value): the truth value Python gives value in `if value:`
PyTruthy(value) ==
    CASE value.type = "bool" -> value.text = <<"T", "r", "u", "e">>
      [] value.type = "NoneType" -> FALSE
      [] OTHER -> value.text # << >>

\* verified_data.get('is_holiday') of the fact-check objects the model draws;
\* PyNone is the absent key.
IsHolidayValues ==
    {PyBool(TRUE), PyBool(FALSE), PyNone,
     PyString(<<"t", "r", "u", "e">>), PyString(<<"T", "R", "U", "E">>),
     PyString(<<"f", "a", "l", "s", "e">>)}

\* Accepting whatever is truthy: `if is_holiday_flag:`.
IsHolidayAcceptedTruthy(is_holiday_flag) == PyTruthy(is_holiday_flag)

\* str(is_holiday_flag).lower() == 'true'
IsHolidayAccepted(is_holiday_flag) ==
    PyLower(PyStr(is_holiday_flag)) = <<"t", "r", "u", "e">>

\* tokens and logs.total_price of an LLM response; has is FALSE when the
\* response carries neither key (.get falls back to 0 and 0.0).
NoEconomics == [has |-> FALSE, tokens |-> 0, total_price |-> 0]

Economics ==
    {[has |-> TRUE, tokens |-> 100, total_price |-> 10],
     [has |-> TRUE, tokens |-> 50, total_price |-> 5],
     NoEconomics}

\* Tokens counted only once the result of the response has been decoded.
TokensOfDecoded(response) ==
    IF response.econ.has /\ response.result # "undecodable" THEN response.econ.tokens ELSE 0

\* dedup_result.get('tokens', 0), dedup_result.get('logs', {}).get('total_price', 0.0)
NiktaTokens(response) == IF response.econ.has THEN response.econ.tokens ELSE 0
NiktaPrice(response) == IF response.econ.has THEN response.econ.total_price ELSE 0

\* How nikta_client.run_scenario(NIKTA_DEDUPLICATE_SCENARIO_ID, ...) can end:
\* APIError; a response that is no dict; a response whose result does not
\* decode, decodes to something that is no object, or decodes to an object
\* with a holidays list of n candidates.
DedupOutcomes(E) ==
    {[kind |-> k, econ |-> NoEconomics, result |-> "", n |-> 0]
        : k \in {"api_error", "not_dict"}}
    \cup {[kind |-> "response", econ |-> e, result |-> r, n |-> 0]
        : e \in E, r \in {"undecodable", "not_object"}}
    \cup {[kind |-> "response", econ |-> e, result |-> "holidays", n |-> n]
        : e \in E, n \in 0..MaxCandidates}

\* The verified payloads the fact-check scenario answers with.
CheckerPayloads ==
    { p \in Payloads : p.regions = << >> /\ "name" \in p.keys }

\* How nikta_client.run_scenario(NIKTA_HOLIDAY_CHECKER_SCENARIO_ID, ...) can
\* end: APIError; a response that is no dict; a response whose result text has
\* no JSON object in it ("no_json") or holds the object [is_holiday, data];
\* the last set is the accepted objects whose regions value is no list.
CheckerOutcomes(E, F, P) ==
    {[kind |-> k, econ |-> NoEconomics, result |-> "", is_holiday |-> PyNone, data |-> EmptyPayload]
        : k \in {"api_error", "not_dict"}}
    \cup {[kind |-> "response", econ |-> e, result |-> "no_json", is_holiday |-> PyNone, data |-> EmptyPayload]
        : e \in E}
    \cup {[kind |-> "response", econ |-> e, result |-> "object", is_holiday |-> f, data |-> p]
        : e \in E, f \in F, p \in P}
    \cup {[kind |-> "response", econ |-> e, result |-> "object", is_holiday |-> PyBool(TRUE),
           data |-> [p EXCEPT !.keys = PayloadKeys, !.regions = NotIterable]]
        : e \in E, p \in { q \in P : {"date", "name"} \subseteq q.keys }}

\* _parse_nikta_checker_response: the parsed dict, or None.
ParseNiktaCheckerResponse(response) ==
    IF response.result = "object"
    THEN [is_none |-> FALSE, is_holiday |-> response.is_holiday, data |-> response.data]
    ELSE [is_none |-> TRUE, is_holiday |-> PyNone, data |-> EmptyPayload]

\* `not verified_data`: None, or a dict with no key.
NotVerifiedData(verified_data) ==
    \/ verified_data.is_none
    \/ (verified_data.is_holiday = PyNone /\ verified_data.data.keys = {})

NoRaw == [ninjas_holidays |-> "empty", nager_holidays |-> "empty", open_holidays |-> "empty"]
NoFetch == [ninjas |-> "not_queried", nager |-> "not_queried", open |-> "not_queried"]
\* llm: the bag of the economics of the responses returned so far.
NoLlm == EmptyBag
NoCheck == [kind |-> "none", result |-> "", is_holiday |-> PyNone, data |-> EmptyPayload,
            saved |-> FALSE, rows_before |-> 0]

CountryRows(hs, country_code) ==
    Cardinality({ i \in DOMAIN hs : hs[i].country_code = country_code })

InitBatch ==
    /\ countries \in CountryLists
    /\ driver = "none"
    /\ pc = "idle"
    /\ idx = 1
    /\ attempted = << >>
    /\ outcomes = << >>

\* The batch of the specifications that run none.
QuietBatch ==
    /\ countries = << >>
    /\ driver = "none"
    /\ pc = "idle"
    /\ idx = 1
    /\ attempted = << >>
    /\ outcomes = << >>

InitPass ==
    /\ grand_total_tokens = 0
    /\ grand_total_price = 0
    /\ raw_holidays = NoRaw
    /\ fetches = NoFetch
    /\ holidays_to_check = 0
    /\ cand = 1
    /\ llm = NoLlm
    /\ last_check = NoCheck
    /\ verdicts = << >>
    /\ pass_rows_before = 0

\* HolidayService.__init__: the counters of the new instance.
NewService ==
    /\ grand_total_tokens' = 0
    /\ grand_total_price' = 0
    /\ raw_holidays' = NoRaw
    /\ fetches' = NoFetch
    /\ holidays_to_check' = 0
    /\ cand' = 1
    /\ llm' = NoLlm
    /\ last_check' = NoCheck
    /\ verdicts' = << >>
    /\ pass_rows_before' = 0

\* The batch starts: the monthly job (bot) or the collector (main). The job's
\* opening announcement is sent outside its try block; HolidayService() raises
\* RuntimeError when the LLM authentication fails.
StartRun(d, announce_ok, warn_ok, auth_ok) ==
    /\ pc = "idle"
    /\ driver' = d
    /\ idx' = 1
    /\ attempted' = << >>
    /\ outcomes' = << >>
    /\ NewService
    /\ pc' = CASE d = "bot" /\ ~announce_ok -> "escaped"
               [] d = "bot" /\ countries = << >> /\ ~warn_ok -> "failed"
               [] countries = << >> -> "done"
               [] d = "bot" /\ ~auth_ok -> "failed"
               [] d = "main" /\ ~auth_ok -> "escaped"
               [] OTHER -> "loop"
    /\ UNCHANGED <<countries, saveVars>>
    /\ UNCHANGED <<chatVars, clockVars, mailVars, reportVars, sourceVars, clientVars, jobVars>>

\* process_holidays_for_period returned: the loop goes on to the next country.
PassReturns(how) ==
    /\ outcomes' = Append(outcomes, how)
    /\ idx' = idx + 1
    /\ pc' = "loop"

\* process_holidays_for_period raised: `except Exception` of the loop body.
\* main logs and goes on; the job also sends a message to the channel, and an
\* exception of that send leaves the loop for the job's outer except clause.
PassRaises(how, send_ok) ==
    /\ outcomes' = Append(outcomes, how)
    /\ IF driver = "bot" /\ ~send_ok
       THEN pc' = "failed" /\ idx' = idx
       ELSE pc' = "loop" /\ idx' = idx + 1

\* How the request of one source can end: a list with holidays of the month
\* ("items"), a list without ("empty"), a network or decode failure inside
\* _get_from_api ("failed"), or a payload whose entries are no dicts, on which
\* the source's own loop raises AttributeError ("malformed").
SourceResults == {"items", "empty", "failed", "malformed"}

\* A _get_from_api that lets the request's exception through.
SourceRaisesOnFailure(result) == result \in {"malformed", "failed"}

\* The call of the source raises: _get_from_api catches RequestException and
\* JSONDecodeError and returns [], the loops over the entries catch nothing.
SourceRaises(result) == result = "malformed"

\* The list the source returns.
SourceList(result) == IF result = "items" THEN "items" ELSE "empty"

\* The sources tried in turn until one has holidays.
FetchesUntilFirstHit(ninjas, nager, open) ==
    IF SourceRaises(ninjas) \/ ninjas = "items"
    THEN [ninjas |-> ninjas, nager |-> "not_queried", open |-> "not_queried"]
    ELSE IF SourceRaises(nager) \/ nager = "items"
    THEN [ninjas |-> ninjas, nager |-> nager, open |-> "not_queried"]
    ELSE [ninjas |-> ninjas, nager |-> nager, open |-> open]

\* The dict literal calls the three sources in order; a call that raises ends it.
Fetches(ninjas, nager, open) ==
    IF SourceRaises(ninjas)
    THEN [ninjas |-> ninjas, nager |-> "not_queried", open |-> "not_queried"]
    ELSE IF SourceRaises(nager)
    THEN [ninjas |-> ninjas, nager |-> nager, open |-> "not_queried"]
    ELSE [ninjas |-> ninjas, nager |-> nager, open |-> open]

\* A pass that always goes on to dedup.
AlwaysDedup(raw) == TRUE

\* any(raw_holidays.values())
AnyHolidays(raw) ==
    "items" \in {raw.ninjas_holidays, raw.nager_holidays, raw.open_holidays}

\* The loop calls process_holidays_for_period for countries[idx], which
\* queries the three sources and returns when none has a holiday.
StartCountry(ninjas, nager, open, send_ok) ==
    /\ pc = "loop"
    /\ idx <= Len(countries)
    /\ attempted' = Append(attempted, countries[idx])
    /\ verdicts' = << >>
    /\ pass_rows_before' = CountryRows(holidays, countries[idx])
    /\ holidays_to_check' = 0
    /\ cand' = 1
    /\ last_check' = NoCheck
    /\ fetches' = Fetches(ninjas, nager, open)
    /\ LET raw == [ninjas_holidays |-> SourceList(ninjas), nager_holidays |-> SourceList(nager),
                   open_holidays |-> SourceList(open)]
       IN  IF \E result \in {ninjas, nager, open} : SourceRaises(result)
           THEN /\ PassRaises("raised", send_ok)
                /\ raw_holidays' = NoRaw
           ELSE IF ~AnyHolidays(raw)
           THEN /\ PassReturns("no_data")
                /\ raw_holidays' = NoRaw
           ELSE /\ pc' = "dedup"
                /\ raw_holidays' = raw
                /\ UNCHANGED <<idx, outcomes>>
    /\ UNCHANGED <<countries, driver, grand_total_tokens, grand_total_price, llm, saveVars>>
    /\ UNCHANGED <<chatVars, clockVars, mailVars, reportVars, sourceVars, clientVars, jobVars>>

\* The counters set to the request's numbers: `=` in place of `+=`.
CountResponseOverwrite(response) ==
    /\ grand_total_tokens' = NiktaTokens(response)
    /\ grand_total_price' = NiktaPrice(response)

\* The counters after a response: self.grand_total_tokens += nikta_tokens, ...
CountResponse(response) ==
    /\ grand_total_tokens' = grand_total_tokens + NiktaTokens(response)
    /\ grand_total_price' = grand_total_price + NiktaPrice(response)

\* run_scenario returned response to this instance.
LlmReturned(response) ==
    llm' = llm (+) SetToBag({response.econ})

\* Step 2 of the pass: the dedup call and the decoding of its result.
Dedup(out, send_ok) ==
    /\ pc = "dedup"
    /\ raw_holidays' = NoRaw
    /\ fetches' = NoFetch
    /\ cand' = 1
    /\ CASE out.kind = "api_error" ->
              /\ PassReturns("dedup_api_error")
              /\ holidays_to_check' = 0
              /\ UNCHANGED <<grand_total_tokens, grand_total_price, llm>>
         [] out.kind = "not_dict" ->
              /\ PassRaises("dedup_raised", send_ok)
              /\ holidays_to_check' = 0
              /\ LlmReturned(out)
              /\ UNCHANGED <<grand_total_tokens, grand_total_price>>
         [] out.kind = "response" /\ out.result = "undecodable" ->
              /\ CountResponse(out)
              /\ LlmReturned(out)
              /\ PassReturns("dedup_decode_error")
              /\ holidays_to_check' = 0
         [] out.kind = "response" /\ out.result = "not_object" ->
              /\ CountResponse(out)
              /\ LlmReturned(out)
              /\ PassRaises("dedup_raised", send_ok)
              /\ holidays_to_check' = 0
         [] out.kind = "response" /\ out.result = "holidays" ->
              /\ CountResponse(out)
              /\ LlmReturned(out)
              /\ holidays_to_check' = out.n
              /\ IF out.n = 0
                 THEN PassReturns("completed")
                 ELSE pc' = "check" /\ UNCHANGED <<idx, outcomes>>
    /\ UNCHANGED <<countries, driver, attempted, last_check, verdicts,
                   pass_rows_before, saveVars>>
    /\ UNCHANGED <<chatVars, clockVars, mailVars, reportVars, sourceVars, clientVars, jobVars>>

\* The verdict of one fact-check as the pass sees it: "true" for an accepted
\* object that has its date and name and whose save does not raise, "false"
\* for an object whose is_holiday reads false, "other" for everything else.
Verdict(out, verified_data) ==
    CASE out.kind # "response" -> "other"
      [] NotVerifiedData(verified_data) -> "other"
      [] verified_data.data.regions = NotIterable -> "other"
      [] PyLower(PyStr(verified_data.is_holiday)) = <<"t", "r", "u", "e">>
           /\ {"date", "name"} \subseteq verified_data.data.keys -> "true"
      [] PyLower(PyStr(verified_data.is_holiday)) = <<"f", "a", "l", "s", "e">> -> "false"
      [] OTHER -> "other"

\* A loop whose try block is around the for statement: a failure ends it.
StopOnFailure(c, n, failed) == IF failed THEN n + 1 ELSE c + 1

\* The try block is inside the loop body: after candidate c the loop is at
\* candidate c + 1, whether or not the iteration failed.
NextCandidate(c, n, failed) == c + 1

\* Step 3 of the pass, one iteration: the fact-check call for candidate cand,
\* the parsing of its result and the save of an accepted one. APIError and any
\* other exception of the iteration, one that leaves _save_verified_holiday
\* included, are caught in the loop body.
FactCheck(out) ==
    /\ pc = "check"
    /\ cand <= holidays_to_check
    /\ LET country_code == countries[idx]
           verified_data == ParseNiktaCheckerResponse(out)
           counted == out.kind = "response"
           accepted == /\ counted
                       /\ ~NotVerifiedData(verified_data)
                       /\ IsHolidayAccepted(verified_data.is_holiday)
           res == SaveVerifiedHoliday(Db(holidays, regions), country_code, verified_data.data)
           failed == \/ ~counted
                     \/ NotVerifiedData(verified_data)
                     \/ (accepted /\ res.log = "TypeError")
           next == NextCandidate(cand, holidays_to_check, failed)
       IN  /\ IF counted
              THEN CountResponse(out)
              ELSE UNCHANGED <<grand_total_tokens, grand_total_price>>
           /\ IF out.kind = "api_error" THEN UNCHANGED llm ELSE LlmReturned(out)
           /\ IF accepted
              THEN /\ holidays' = res.db.holidays
                   /\ regions' = res.db.regions
              ELSE UNCHANGED <<holidays, regions>>
           /\ last_check' = [kind |-> out.kind, result |-> out.result,
                             is_holiday |-> out.is_holiday, data |-> out.data,
                             saved |-> accepted, rows_before |-> Len(holidays)]
           /\ verdicts' = Append(verdicts, Verdict(out, verified_data))
           /\ cand' = next
           /\ IF next > holidays_to_check
              THEN PassReturns("completed")
              ELSE UNCHANGED <<pc, idx, outcomes>>
    /\ UNCHANGED <<countries, driver, attempted, raw_holidays, fetches, holidays_to_check,
                   pass_rows_before, last_save, last_query>>
    /\ UNCHANGED <<chatVars, clockVars, mailVars, reportVars, sourceVars, clientVars, jobVars>>

\* The loop is over: main logs the totals and ends; the job goes on to post
\* its summary.
EndLoop ==
    /\ pc = "loop"
    /\ idx > Len(countries)
    /\ pc' = IF driver = "bot" THEN "summary" ELSE "done"
    /\ fetches' = NoFetch
    /\ UNCHANGED <<countries, driver, idx, attempted, outcomes, saveVars>>
    /\ UNCHANGED <<grand_total_tokens, grand_total_price, raw_holidays, holidays_to_check,
                   cand, llm, last_check, verdicts, pass_rows_before>>
    /\ UNCHANGED <<chatVars, clockVars, mailVars, reportVars, sourceVars, clientVars, jobVars>>

(***************************************************************************)
(* Text and dates: datetime.strptime(text, '%Y-%m-%d'), calendar.          *)
(* A text is the sequence of its characters.                               *)
(***************************************************************************)

DigitChars == <<"0", "1", "2", "3", "4", "5", "6", "7", "8", "9">>
IsDigit(c) == \E i \in DOMAIN DigitChars : DigitChars[i] = c
DigitValue(c) == (CHOOSE i \in DOMAIN DigitChars : DigitChars[i] = c) - 1
AllDigits(s) == \A i \in DOMAIN s : IsDigit(s[i])

\* int(s) of a text of decimal digits.
RECURSIVE PyInt(_)
PyInt(s) ==
    IF s = << >> THEN 0
    ELSE 10 * PyInt(SubSeq(s, 1, Len(s) - 1)) + DigitValue(s[Len(s)])

\* calendar.isleap.
isleap(year) == year % 4 = 0 /\ (year % 100 # 0 \/ year % 400 = 0)

\* calendar.mdays without its leading 0.
mdays == <<31, 28, 31, 30, 31, 30, 31, 31, 30, 31, 30, 31>>

\* calendar.monthrange(year, month)[1].
monthrange(year, month) == mdays[month] + (IF month = 2 /\ isleap(year) THEN 1 ELSE 0)

NoDateTime == [ok |-> FALSE, year |-> 0, month |-> 0, day |-> 0]

\* %m: 1[0-2]|0[1-9]|[1-9].
MatchesMonth(s) == Len(s) \in 1..2 /\ AllDigits(s) /\ PyInt(s) \in 1..12

\* %d: 3[01]|[12]\d|0[1-9]|[1-9]| [1-9].
MatchesDay(s) ==
    \/ Len(s) \in 1..2 /\ AllDigits(s) /\ PyInt(s) \in 1..31
    \/ Len(s) = 2 /\ s[1] = " " /\ IsDigit(s[2]) /\ s[2] # "0"

DayValue(s) == IF s[1] = " " THEN PyInt(<<s[2]>>) ELSE PyInt(s)

\* datetime.strptime(text, '%Y-%m-%d'): the whole text must be four digits, a
\* month and a day joined by "-", and name a day of the calendar; ok is FALSE
\* where strptime raises ValueError.
StrpTime(text) ==
    LET dashes == { i \in DOMAIN text : text[i] = "-" }
    IN  IF Cardinality(dashes) # 2 THEN NoDateTime
        ELSE LET i == CHOOSE k \in dashes : \A l \in dashes : k <= l
                 j == CHOOSE k \in dashes : \A l \in dashes : l <= k
                 Y == SubSeq(text, 1, i - 1)
                 m == SubSeq(text, i + 1, j - 1)
                 d == SubSeq(text, j + 1, Len(text))
             IN  IF /\ Len(Y) = 4 /\ AllDigits(Y) /\ PyInt(Y) >= 1
                    /\ MatchesMonth(m)
                    /\ MatchesDay(d)
                    /\ DayValue(d) <= monthrange(PyInt(Y), PyInt(m))
                 THEN [ok |-> TRUE, year |-> PyInt(Y), month |-> PyInt(m), day |-> DayValue(d)]
                 ELSE NoDateTime

\* a < b of two datetimes.
DateTimeLt(a, b) ==
    \/ a.year < b.year
    \/ a.year = b.year /\ a.month < b.month
    \/ a.year = b.year /\ a.month = b.month /\ a.day < b.day

(***************************************************************************)
(* The chat flows (bot.py): the two ConversationHandlers of one chat.      *)
(* Flow A (holiday_check_conv) is IDLE at END and AWAITING_DATE at         *)
(* GET_SPECIFIC_DATE; flow B (report_conv) is IDLE at END, AWAITING_START  *)
(* at GET_START_DATE and AWAITING_END at GET_END_DATE.                     *)
(***************************************************************************)

GET_START_DATE == 0
GET_END_DATE == 1
GET_SPECIFIC_DATE == 2
\* ConversationHandler.END
END == -1

\* The button labels, transliterated and cut at their first word.
BTN_GET_HOLIDAYS == <<"U", "z", "n", "a", "t">>
BTN_CREATE_REPORT == <<"S", "g", "e", "n", "e", "r", "i", "r", "o", "v", "a", "t">>

CmdStart == <<"/", "s", "t", "a", "r", "t">>
CmdCancel == <<"/", "c", "a", "n", "c", "e", "l">>

\* What the chat sends: dates (one of them not zero-padded), a day that is not
\* in the calendar, a month that is none, free text, the two button labels and
\* the two commands.
Texts ==
    { <<"2", "0", "2", "5", "-", "0", "5", "-", "1", "0">>,
      <<"2", "0", "2", "5", "-", "0", "5", "-", "0", "1">>,
      <<"2", "0", "2", "5", "-", "5", "-", "1">>,
      <<"2", "0", "2", "5", "-", "0", "2", "-", "3", "0">>,
      <<"2", "0", "2", "5", "-", "1", "3", "-", "0", "1">>,
      <<"n", "o", "t", "-", "a", "-", "d", "a", "t", "e">>,
      BTN_GET_HOLIDAYS, BTN_CREATE_REPORT, CmdStart, CmdCancel }

\* filters.COMMAND
IsCommand(text) == text # << >> /\ text[1] = "/"

NoUserData == [has_start |-> FALSE, start_date |-> << >>]

\* What a handler call comes to: whether it raised (the conversation then
\* keeps its state), the state it returned, context.user_data after it, the
\* reply it sent or tried to send, and its call of generate_holidays_report.
Handled(raised, state, ud, said, generated, args) ==
    [raised |-> raised, state |-> state, user_data |-> ud, said |-> said,
     generated |-> generated, args |-> args]

start(ud) == Handled(FALSE, END, ud, "greeting", FALSE, << >>)

start_holiday_check_conversation(ud, reply_ok) ==
    Handled(~reply_ok, GET_SPECIFIC_DATE, ud, "prompt_date", FALSE, << >>)

handle_specific_date(user_input, ud, reply_ok) ==
    IF StrpTime(user_input).ok
    THEN Handled(~reply_ok, END, ud, "holidays", FALSE, << >>)
    ELSE Handled(~reply_ok, GET_SPECIFIC_DATE, ud, "format_reminder", FALSE, << >>)

start_report_conversation(ud, reply_ok) ==
    Handled(~reply_ok, GET_START_DATE, ud, "prompt_start", FALSE, << >>)

\* A rejected start date ends the conversation and drops the scratch state.
handle_start_date_ends(user_input, ud, reply_ok) ==
    IF StrpTime(user_input).ok
    THEN Handled(~reply_ok, GET_END_DATE, [has_start |-> TRUE, start_date |-> user_input],
                 "prompt_end", FALSE, << >>)
    ELSE Handled(~reply_ok, END, NoUserData, "format_reminder", FALSE, << >>)

handle_start_date(user_input, ud, reply_ok) ==
    IF StrpTime(user_input).ok
    THEN Handled(~reply_ok, GET_END_DATE, [has_start |-> TRUE, start_date |-> user_input],
                 "prompt_end", FALSE, << >>)
    ELSE Handled(~reply_ok, GET_START_DATE, ud, "format_reminder", FALSE, << >>)

\* The comparison turned round: end_date > start_date.
EndAfterStart(end_date, start_date) == DateTimeLt(start_date, end_date)

\* end_date < start_date
EndBeforeStart(end_date, start_date) == DateTimeLt(end_date, start_date)

\* What can go wrong after the dates are accepted: the "generating" reply,
\* generate_holidays_report, or the sending of the document.
\* The reports directory as the set of its files, each [path, writer].
NoFiles == {}

\* workbook.save(report_path): the file at the path is created or replaced.
SaveFile(fs, path, writer) ==
    { f \in fs : f.path # path } \cup {[path |-> path, writer |-> writer]}

\* os.path.exists(report_path)
Exists(fs, path) == \E f \in fs : f.path = path

\* os.remove(report_path)
RemoveFile(fs, path) == { f \in fs : f.path # path }

\* The report files left in the directory by failed sends are capped.
MaxFiles == 1

\* handle_end_date leaving the file on disk after sending it.
ReportFileLeftOnDisk(fs, path, fail) ==
    IF fail \in {"none", "send"} THEN SaveFile(fs, path, "chat") ELSE fs

\* The reports directory after handle_end_date: the report is saved by
\* generate_holidays_report and, once send_document returned, removed; a raise
\* in between leaves the file.
ReportFileAfter(fs, path, fail) ==
    IF fail = "none" THEN RemoveFile(SaveFile(fs, path, "chat"), path)
    ELSE IF fail = "send" THEN SaveFile(fs, path, "chat")
    ELSE fs

EndDateFailures == {"none", "reply", "generate", "send"}

\* strptime(None) raises TypeError, which the handler does not catch.
handle_end_date(user_input, ud, fail) ==
    IF ~ud.has_start
    THEN Handled(TRUE, GET_END_DATE, ud, "", FALSE, << >>)
    ELSE LET start_date == StrpTime(ud.start_date)
             end_date == StrpTime(user_input)
         IN  IF ~start_date.ok \/ ~end_date.ok
             THEN Handled(fail = "reply", GET_END_DATE, ud, "format_reminder", FALSE, << >>)
             ELSE IF EndBeforeStart(end_date, start_date)
             THEN Handled(fail = "reply", GET_END_DATE, ud, "end_before_start", FALSE, << >>)
             ELSE IF fail = "reply"
             THEN Handled(TRUE, GET_END_DATE, ud, "generating", FALSE, << >>)
             ELSE IF fail \in {"generate", "send"}
             THEN Handled(TRUE, GET_END_DATE, ud, "generating", TRUE,
                          <<ud.start_date, user_input>>)
             ELSE Handled(FALSE, END, NoUserData, "report", TRUE,
                          <<ud.start_date, user_input>>)

cancel_conversation(ud, reply_ok) ==
    Handled(~reply_ok, END, NoUserData, "cancelled", FALSE, << >>)

\* Application.process_update over the handlers of main(), all in one group:
\* CommandHandler("start"), holiday_check_conv, report_conv; the first whose
\* check_update accepts the update handles it. A conversation that is idle
\* accepts its entry point only; one that is not accepts what the handler of
\* its state accepts, and then its fallbacks.
Route(text) ==
    IF IsCommand(text)
    THEN IF text = CmdStart THEN "start"
         ELSE IF text # CmdCancel THEN ""
         ELSE IF holiday_conv # END THEN "cancel_holiday_check"
         ELSE IF report_conv # END THEN "cancel_report"
         ELSE ""
    ELSE IF holiday_conv = GET_SPECIFIC_DATE THEN "handle_specific_date"
    ELSE IF text = BTN_GET_HOLIDAYS THEN "start_holiday_check_conversation"
    ELSE IF report_conv = GET_START_DATE THEN "handle_start_date"
    ELSE IF report_conv = GET_END_DATE THEN "handle_end_date"
    ELSE IF text = BTN_CREATE_REPORT THEN "start_report_conversation"
    ELSE ""

NoUpdate ==
    [text |-> << >>, handler |-> "", holiday_before |-> END, report_before |-> END,
     user_data_before |-> NoUserData, said |-> "", generated |-> FALSE, args |-> << >>,
     after_invalid |-> ""]

InitChat ==
    /\ holiday_conv = END
    /\ report_conv = END
    /\ user_data = NoUserData
    /\ last_update = NoUpdate

\* The update and what its handler did, for the claims.
Delivered(text, handler, r) ==
    last_update' =
        [text |-> text, handler |-> handler, holiday_before |-> holiday_conv,
         report_before |-> report_conv, user_data_before |-> user_data,
         said |-> r.said, generated |-> r.generated, args |-> r.args,
         after_invalid |->
             IF /\ last_update.handler # ""
                /\ ~IsCommand(last_update.text)
                /\ ~StrpTime(last_update.text).ok
             THEN last_update.handler ELSE ""]

\* ConversationHandler.handle_update: the state the callback returned, or the
\* state as it was when the callback raised.
NewState(conv, r) == IF r.raised THEN conv ELSE r.state

\* The top-level CommandHandler("start"): no conversation sees the update.
Start(text) ==
    /\ Route(text) = "start"
    /\ Delivered(text, "start", start(user_data))
    /\ UNCHANGED <<holiday_conv, report_conv, user_data>>
    /\ UNCHANGED <<saveVars, batchVars, passVars, clockVars, mailVars, reportVars, sourceVars, clientVars, jobVars>>

StartHolidayCheckConversation(text, reply_ok) ==
    /\ Route(text) = "start_holiday_check_conversation"
    /\ LET r == start_holiday_check_conversation(user_data, reply_ok)
       IN  /\ holiday_conv' = NewState(holiday_conv, r)
           /\ user_data' = r.user_data
           /\ Delivered(text, "start_holiday_check_conversation", r)
    /\ UNCHANGED report_conv
    /\ UNCHANGED <<saveVars, batchVars, passVars, clockVars, mailVars, reportVars, sourceVars, clientVars, jobVars>>

HandleSpecificDate(text, reply_ok) ==
    /\ Route(text) = "handle_specific_date"
    /\ LET r == handle_specific_date(text, user_data, reply_ok)
       IN  /\ holiday_conv' = NewState(holiday_conv, r)
           /\ user_data' = r.user_data
           /\ Delivered(text, "handle_specific_date", r)
    /\ UNCHANGED report_conv
    /\ UNCHANGED <<saveVars, batchVars, passVars, clockVars, mailVars, reportVars, sourceVars, clientVars, jobVars>>

StartReportConversation(text, reply_ok) ==
    /\ Route(text) = "start_report_conversation"
    /\ LET r == start_report_conversation(user_data, reply_ok)
       IN  /\ report_conv' = NewState(report_conv, r)
           /\ user_data' = r.user_data
           /\ Delivered(text, "start_report_conversation", r)
    /\ UNCHANGED holiday_conv
    /\ UNCHANGED <<saveVars, batchVars, passVars, clockVars, mailVars, reportVars, sourceVars, clientVars, jobVars>>

HandleStartDate(text, reply_ok) ==
    /\ Route(text) = "handle_start_date"
    /\ LET r == handle_start_date(text, user_data, reply_ok)
       IN  /\ report_conv' = NewState(report_conv, r)
           /\ user_data' = r.user_data
           /\ Delivered(text, "handle_start_date", r)
    /\ UNCHANGED holiday_conv
    /\ UNCHANGED <<saveVars, batchVars, passVars, clockVars, mailVars, reportVars, sourceVars, clientVars, jobVars>>

HandleEndDate(text, fail) ==
    /\ Route(text) = "handle_end_date"
    /\ LET r == handle_end_date(text, user_data, fail)
       IN  /\ report_conv' = NewState(report_conv, r)
           /\ user_data' = r.user_data
           /\ Delivered(text, "handle_end_date", r)
           /\ files' = IF r.generated THEN ReportFileAfter(files, r.args, fail) ELSE files
           /\ Cardinality(files') <= MaxFiles
    /\ UNCHANGED <<holiday_conv, report, callers>>
    /\ UNCHANGED <<saveVars, batchVars, passVars, clockVars, mailVars, sourceVars, clientVars, jobVars>>

\* /cancel: the fallback of the first conversation that is not idle.
CancelConversation(text, reply_ok) ==
    /\ Route(text) \in {"cancel_holiday_check", "cancel_report"}
    /\ LET r == cancel_conversation(user_data, reply_ok)
       IN  /\ IF Route(text) = "cancel_holiday_check"
              THEN holiday_conv' = NewState(holiday_conv, r) /\ UNCHANGED report_conv
              ELSE report_conv' = NewState(report_conv, r) /\ UNCHANGED holiday_conv
           /\ user_data' = r.user_data
           /\ Delivered(text, "cancel_conversation", r)
    /\ UNCHANGED <<saveVars, batchVars, passVars, clockVars, mailVars, reportVars, sourceVars, clientVars, jobVars>>

NextChat ==
    \/ \E text \in Texts : Start(text)
    \/ \E text \in Texts, reply_ok \in BOOLEAN : StartHolidayCheckConversation(text, reply_ok)
    \/ \E text \in Texts, reply_ok \in BOOLEAN : HandleSpecificDate(text, reply_ok)
    \/ \E text \in Texts, reply_ok \in BOOLEAN : StartReportConversation(text, reply_ok)
    \/ \E text \in Texts, reply_ok \in BOOLEAN : HandleStartDate(text, reply_ok)
    \/ \E text \in Texts, fail \in EndDateFailures : HandleEndDate(text, fail)
    \/ \E text \in Texts, reply_ok \in BOOLEAN : CancelConversation(text, reply_ok)

(***************************************************************************)
(* The next-month computations: bot.get_next_date_for_job,                 *)
(* email_sender.get_next_month_dates, main.get_next_date.                  *)
(***************************************************************************)

FirstYear == 2023
LastYear == 2025
\* Years whose February the Gregorian century rule decides, and the year
\* before one of them.
CenturyYears == {2000, 2099, 2100}
Years == (FirstYear..LastYear) \cup CenturyYears

\* The values date.today() can have.
Dates ==
    { t \in [year : Years, month : 1..12, day : 1..31] : t.day <= monthrange(t.year, t.month) }

\* str(n) of an integer n >= 0.
RECURSIVE DecimalText(_)
DecimalText(n) ==
    IF n < 10 THEN <<DigitChars[n + 1]>>
    ELSE Append(DecimalText(n \div 10), DigitChars[(n % 10) + 1])

\* text.zfill(width)
RECURSIVE zfill(_, _)
zfill(text, width) == IF Len(text) >= width THEN text ELSE zfill(<<"0">> \o text, width)

\* date(year, month, day).isoformat()
isoformat(year, month, day) ==
    zfill(DecimalText(year), 4) \o <<"-">> \o zfill(DecimalText(month), 2)
        \o <<"-">> \o zfill(DecimalText(day), 2)

\* The table of month names, transliterated; index 1 is the unused "".
month_names ==
    << << >>,
       <<"Y", "a", "n", "v", "a", "r">>,
       <<"F", "e", "v", "r", "a", "l">>,
       <<"M", "a", "r", "t">>,
       <<"A", "p", "r", "e", "l">>,
       <<"M", "a", "y">>,
       <<"I", "y", "u", "n">>,
       <<"I", "y", "u", "l">>,
       <<"A", "v", "g", "u", "s", "t">>,
       <<"S", "e", "n", "t", "y", "a", "b", "r">>,
       <<"O", "k", "t", "y", "a", "b", "r">>,
       <<"N", "o", "y", "a", "b", "r">>,
       <<"D", "e", "k", "a", "b", "r">> >>

\* The year is not carried into January.
get_next_date_for_job_same_year(t) ==
    LET year == t.year
        next_month == IF t.month = 12 THEN 1 ELSE t.month + 1
        last_day_of_month == monthrange(year, next_month)
    IN  <<DecimalText(year), zfill(DecimalText(next_month), 2),
          isoformat(year, next_month, 1), isoformat(year, next_month, last_day_of_month)>>

\* bot.get_next_date_for_job with date.today() = t.
get_next_date_for_job(t) ==
    LET year == IF t.month = 12 THEN t.year + 1 ELSE t.year
        next_month == IF t.month = 12 THEN 1 ELSE t.month + 1
        last_day_of_month == monthrange(year, next_month)
    IN  <<DecimalText(year), zfill(DecimalText(next_month), 2),
          isoformat(year, next_month, 1), isoformat(year, next_month, last_day_of_month)>>

\* email_sender.get_next_month_dates with date.today() = t: the year is an
\* int and the month is its name.
get_next_month_dates(t) ==
    LET current_year == t.year
        next_month == IF t.month = 12 THEN 1 ELSE t.month + 1
        year == IF t.month = 12 THEN current_year + 1 ELSE current_year
        last_day_of_month == monthrange(year, next_month)
    IN  <<year, month_names[next_month + 1],
          isoformat(year, next_month, 1), isoformat(year, next_month, last_day_of_month)>>

\* main.get_next_date with date.today() = t: the first return statement.
get_next_date(t) ==
    <<<<"2", "0", "2", "5">>, <<"0", "8">>, <<"2", "0", "2", "5", "-", "0", "8", "-", "0", "1">>, <<"2", "0", "2", "5", "-", "0", "8", "-", "3", "1">>>>

NoPeriod == [called |-> FALSE, value |-> << >>]

InitClock ==
    /\ today \in Dates
    /\ job_period = NoPeriod
    /\ mail_period = NoPeriod
    /\ main_period = NoPeriod

\* The clock of the specifications that compute no period.
QuietClock ==
    /\ today = [year |-> FirstYear, month |-> 1, day |-> 1]
    /\ job_period = NoPeriod
    /\ mail_period = NoPeriod
    /\ main_period = NoPeriod

GetNextDateForJob ==
    /\ job_period' = [called |-> TRUE, value |-> get_next_date_for_job(today)]
    /\ UNCHANGED <<today, mail_period, main_period>>
    /\ UNCHANGED <<saveVars, batchVars, passVars, chatVars, mailVars, reportVars, sourceVars, clientVars, jobVars>>

GetNextMonthDates ==
    /\ mail_period' = [called |-> TRUE, value |-> get_next_month_dates(today)]
    /\ UNCHANGED <<today, job_period, main_period>>
    /\ UNCHANGED <<saveVars, batchVars, passVars, chatVars, mailVars, reportVars, sourceVars, clientVars, jobVars>>

GetNextDate ==
    /\ main_period' = [called |-> TRUE, value |-> get_next_date(today)]
    /\ UNCHANGED <<today, job_period, mail_period>>
    /\ UNCHANGED <<saveVars, batchVars, passVars, chatVars, mailVars, reportVars, sourceVars, clientVars, jobVars>>

NextDate ==
    \/ GetNextDateForJob
    \/ GetNextMonthDates
    \/ GetNextDate

(***************************************************************************)
(* The Excel report: excel_reporter.py.                                    *)
(***************************************************************************)

\* The characters of the strings the report's database holds.
Chars ==
    ("FR" :> <<"F", "R">>)
    @@ ("de" :> <<"d", "e">>)
    @@ ("Christmas" :> <<"C", "h", "r", "i", "s", "t", "m", "a", "s">>)
    @@ ("2025-02-28" :> <<"2", "0", "2", "5", "-", "0", "2", "-", "2", "8">>)
    @@ ("2025-03-01" :> <<"2", "0", "2", "5", "-", "0", "3", "-", "0", "1">>)
    @@ ("2025-03-15" :> <<"2", "0", "2", "5", "-", "0", "3", "-", "1", "5">>)
    @@ ("2025-03-31" :> <<"2", "0", "2", "5", "-", "0", "3", "-", "3", "1">>)
    @@ ("2025-04-01" :> <<"2", "0", "2", "5", "-", "0", "4", "-", "0", "1">>)
    @@ ("2025-10-15" :> <<"2", "0", "2", "5", "-", "1", "0", "-", "1", "5">>)
    @@ ("IT" :> <<"I", "T">>)
    @@ ("DE" :> <<"D", "E">>)
    @@ ("2025-12-25" :> <<"2", "0", "2", "5", "-", "1", "2", "-", "2", "5">>)
    @@ ("2025-12-26" :> <<"2", "0", "2", "5", "-", "1", "2", "-", "2", "6">>)

\* The code points of the characters in use are ordered as in this list.
CodeOrder == <<"-">> \o DigitChars \o UpperLetters \o LowerLetters
CodePoint(c) == CHOOSE i \in DOMAIN CodeOrder : CodeOrder[i] = c

\* a < b of two texts (Python str, SQLite TEXT with the BINARY collation)
RECURSIVE StrLt(_, _)
StrLt(a, b) ==
    IF b = << >> THEN FALSE
    ELSE IF a = << >> THEN TRUE
    ELSE IF Head(a) # Head(b) THEN CodePoint(Head(a)) < CodePoint(Head(b))
    ELSE StrLt(Tail(a), Tail(b))

\* x BETWEEN lo AND hi of three texts
Between(x, lo, hi) == ~StrLt(x, lo) /\ ~StrLt(hi, x)

UpperChar(c) ==
    IF \E i \in DOMAIN LowerLetters : LowerLetters[i] = c
    THEN UpperLetters[CHOOSE i \in DOMAIN LowerLetters : LowerLetters[i] = c]
    ELSE c

\* s.upper()
PyUpper(s) == [i \in DOMAIN s |-> UpperChar(s[i])]

\* (country_code, name, dt) tuples compare as Python compares tuples of str.
TupleLt(x, y) ==
    IF x[1] # y[1] THEN StrLt(Chars[x[1]], Chars[y[1]])
    ELSE IF x[2] # y[2] THEN StrLt(Chars[x[2]], Chars[y[2]])
    ELSE StrLt(Chars[x[3]], Chars[y[3]])

\* sorted(list(unique_holidays))
RECURSIVE SortedTuples(_)
SortedTuples(S) ==
    IF S = {} THEN << >>
    ELSE LET m == CHOOSE x \in S : \A y \in S \ {x} : TupleLt(x, y)
         IN  <<m>> \o SortedTuples(S \ {m})

\* _fetch_and_group_holidays_data: the holidays of the period as a list of
\* [country_code, name, date, regions], in the order of the returned dict
\* (countries sorted, the holidays of a country sorted by name and date); the
\* empty list stands for {} (no row, or sqlite3.Error). regions is the bag of
\* the joined region names; the empty bag is rendered "Vsya strana".
FetchAndGroupHolidaysData(hs, rs, start_date, end_date, db_ok) ==
    IF ~db_ok THEN << >>
    ELSE
      LET rows == { i \in DOMAIN hs : Between(Chars[hs[i].holiday_date], start_date, end_date) }
          unique_holidays ==
              { <<hs[i].country_code, hs[i].holiday_name, hs[i].holiday_date>> : i \in rows }
          sorted == SortedTuples(unique_holidays)
      IN  [ k \in DOMAIN sorted |->
              [country_code |-> sorted[k][1], name |-> sorted[k][2], date |-> sorted[k][3],
               regions |-> RegionBag(rs, HolidayIds(hs, sorted[k][1], sorted[k][3], sorted[k][2]))] ]

\* The sheet generate_holidays_report saves: row 1 is the header; then either
\* the one informational row merged over columns A-D, or one row per holiday,
\* column A holding the upper-cased country code on the first row of a
\* country's block and merged over the block.
HeaderRow == [kind |-> "header", a |-> << >>, name |-> "", date |-> "", regions |-> EmptyBag]
InfoRow == [kind |-> "info", a |-> << >>, name |-> "", date |-> "", regions |-> EmptyBag]

generate_holidays_report(hs, rs, start_date, end_date, db_ok) ==
    LET all_holidays_data == FetchAndGroupHolidaysData(hs, rs, start_date, end_date, db_ok)
        first(k) == k = 1 \/ all_holidays_data[k - 1].country_code # all_holidays_data[k].country_code
        last(k) == CHOOSE j \in k..Len(all_holidays_data) :
                      /\ \A i \in k..j : all_holidays_data[i].country_code = all_holidays_data[k].country_code
                      /\ (j = Len(all_holidays_data)
                            \/ all_holidays_data[j + 1].country_code # all_holidays_data[k].country_code)
    IN  IF all_holidays_data = << >>
        THEN [rows |-> <<HeaderRow, InfoRow>>,
              merged |-> {[start_row |-> 2, start_column |-> 1, end_row |-> 2, end_column |-> 4]},
              path |-> <<start_date, end_date>>]
        ELSE [rows |-> <<HeaderRow>> \o
                  [ k \in DOMAIN all_holidays_data |->
                      [kind |-> "holiday",
                       a |-> IF first(k) THEN PyUpper(Chars[all_holidays_data[k].country_code])
                             ELSE << >>,
                       name |-> all_holidays_data[k].name,
                       date |-> all_holidays_data[k].date,
                       regions |-> all_holidays_data[k].regions] ],
              merged |-> { [start_row |-> k + 1, start_column |-> 1,
                            end_row |-> last(k) + 1, end_column |-> 1]
                           : k \in { i \in DOMAIN all_holidays_data : first(i) } },
              path |-> <<start_date, end_date>>]

\* The holidays the model's databases are built from, by _save_verified_holiday.
ReportSaves ==
    << [country_code |-> "FR", date |-> "2025-02-28", regions |-> << >>],
       [country_code |-> "FR", date |-> "2025-03-01", regions |-> <<"BY">>],
       [country_code |-> "de", date |-> "2025-03-15", regions |-> << >>],
       [country_code |-> "FR", date |-> "2025-03-31", regions |-> << >>],
       [country_code |-> "de", date |-> "2025-04-01", regions |-> << >>],
       [country_code |-> "FR", date |-> "2025-10-15", regions |-> << >>] >>

RECURSIVE SavedDb(_, _)
SavedDb(db, K) ==
    IF K = {} THEN db
    ELSE LET k == CHOOSE i \in K : \A j \in K : i <= j
             x == ReportSaves[k]
         IN  SavedDb(SaveVerifiedHoliday(db, x.country_code,
                        [keys |-> PayloadKeys, date |-> x.date, name |-> "Christmas",
                         regions |-> x.regions]).db,
                     K \ {k})

\* The databases a report is drawn from: any of the holidays above, saved in order.
ReportDatabases == { SavedDb(Db(<< >>, EmptyBag), K) : K \in SUBSET DOMAIN ReportSaves }

\* The ranges a report is asked for: the monthly job passes isoformat() texts,
\* handle_end_date passes the two texts strptime accepted, as the user typed them.
ReportRanges ==
    { <<<<"2", "0", "2", "5", "-", "0", "3", "-", "0", "1">>, <<"2", "0", "2", "5", "-", "0", "3", "-", "3", "1">>>>,
      <<<<"2", "0", "2", "5", "-", "3", "-", "1">>, <<"2", "0", "2", "5", "-", "3", "-", "3", "1">>>>,
      <<<<"2", "0", "2", "5", "-", "1", "-", "1">>, <<"2", "0", "2", "5", "-", "2", "-", "1">>>>,
      <<<<"2", "0", "2", "5", "-", "0", "3", "-", "1", "5">>, <<"2", "0", "2", "5", "-", "0", "3", "-", "1", "5">>>>,
      <<<<"2", "0", "2", "5", "-", "0", "4", "-", "0", "1">>, <<"2", "0", "2", "5", "-", "0", "4", "-", "0", "1">>>> }

NoReport ==
    [called |-> FALSE, start_date |-> << >>, end_date |-> << >>, db_ok |-> TRUE,
     rows |-> << >>, merged |-> {}, path |-> << >>]

\* A caller of generate_holidays_report: where it is, the path it was given,
\* whose file it read for sending, the exception that ended it.
NoCaller == [at |-> "idle", path |-> << >>, read |-> "", raised |-> ""]
NoCallers == [job |-> NoCaller, chat |-> NoCaller]

QuietReport == report = NoReport /\ files = NoFiles /\ callers = NoCallers

InitReport ==
    /\ \E db \in ReportDatabases : holidays = db.holidays /\ regions = db.regions
    /\ last_save = NoSave
    /\ last_query = NoQuery
    /\ report = NoReport
    /\ files = NoFiles
    /\ callers = NoCallers

\* One call of generate_holidays_report.
GenerateHolidaysReport(range, db_ok) ==
    /\ LET r == generate_holidays_report(holidays, regions, range[1], range[2], db_ok)
       IN  /\ report' = [called |-> TRUE, start_date |-> range[1], end_date |-> range[2],
                      db_ok |-> db_ok, rows |-> r.rows, merged |-> r.merged, path |-> r.path]
           /\ files' = SaveFile(files, r.path, "caller")
    /\ UNCHANGED callers
    /\ UNCHANGED <<saveVars, batchVars, passVars, chatVars, clockVars, mailVars, sourceVars,
                   clientVars, jobVars>>

\* The period the running system reports on and sends its digest for.
SystemRange ==
    <<<<"2", "0", "2", "5", "-", "1", "2", "-", "0", "1">>,
      <<"2", "0", "2", "5", "-", "1", "2", "-", "3", "1">>>>

\* The two callers of generate_holidays_report that can be under way at once:
\* the monthly job (a job-queue task) and handle_end_date (the update being
\* processed). Each hands control back at its awaits: asyncio.to_thread and
\* send_document.
Callers == {"job", "chat"}

\* The ranges the two ask for: the job next month, the chat any range.
CallerRanges(c) ==
    IF c = "job" THEN {SystemRange}
    ELSE {SystemRange,
          <<<<"2", "0", "2", "5", "-", "0", "3", "-", "0", "1">>,
            <<"2", "0", "2", "5", "-", "0", "3", "-", "3", "1">>>>}

\* report_path of the call: REPORTS_DIR/holidays_report_{start}_to_{end}.xlsx
ReportPath(c, range) == range

\* await asyncio.to_thread(generate_holidays_report, ...): the file is saved
\* at the path of the range and the path is returned.
CallerGenerates(c, range) ==
    /\ callers[c].at = "idle"
    /\ files' = SaveFile(files, ReportPath(c, range), c)
    /\ callers' = [callers EXCEPT ![c] = [at |-> "generated", path |-> ReportPath(c, range),
                                          read |-> "", raised |-> ""]]
    /\ UNCHANGED report
    /\ UNCHANGED <<saveVars, batchVars, passVars, chatVars, clockVars, mailVars, sourceVars,
                   clientVars, jobVars>>

\* `with open(report_path, 'rb')` and the start of send_document, which reads
\* the file before its first await; open raises FileNotFoundError when the
\* file is gone.
CallerOpens(c) ==
    /\ callers[c].at = "generated"
    /\ callers' = [callers EXCEPT ![c] =
                      IF Exists(files, callers[c].path)
                      THEN [callers[c] EXCEPT !.at = "sending",
                                     !.read = (CHOOSE f \in files : f.path = callers[c].path).writer]
                      ELSE [callers[c] EXCEPT !.at = "idle", !.raised = "FileNotFoundError"]]
    /\ UNCHANGED <<report, files>>
    /\ UNCHANGED <<saveVars, batchVars, passVars, chatVars, clockVars, mailVars, sourceVars,
                   clientVars, jobVars>>

\* send_document returns and the file is removed under os.path.exists, or
\* send_document raises and the file stays.
CallerSent(c, ok) ==
    /\ callers[c].at = "sending"
    /\ files' = IF ok THEN RemoveFile(files, callers[c].path) ELSE files
    /\ callers' = [callers EXCEPT ![c] = [callers[c] EXCEPT !.at = "idle",
                                              !.raised = IF ok THEN "" ELSE "send"]]
    /\ UNCHANGED report
    /\ UNCHANGED <<saveVars, batchVars, passVars, chatVars, clockVars, mailVars, sourceVars,
                   clientVars, jobVars>>

NextFiles ==
    \/ \E c \in Callers : \E range \in CallerRanges(c) : CallerGenerates(c, range)
    \/ \E c \in Callers : CallerOpens(c)
    \/ \E c \in Callers, ok \in BOOLEAN : CallerSent(c, ok)

NextReport == \E range \in ReportRanges, db_ok \in BOOLEAN : GenerateHolidaysReport(range, db_ok)

(***************************************************************************)
(* The email digest: email_sender.send_holiday_email_to_all.               *)
(***************************************************************************)

MaxRecipients == 2
Addresses == {"a@example.org", "b@example.org"}

\* The values config.EMAIL_RECIPIENTS can have.
RecipientLists == UNION { [1..n -> Addresses] : n \in 0..MaxRecipients }

\* The periods the monthly job calls the sender with.
MailPeriods ==
    { get_next_month_dates(t) :
        t \in { [year |-> LastYear, month |-> 11, day |-> 20],
                [year |-> LastYear, month |-> 12, day |-> 20],
                [year |-> 2025, month |-> 2, day |-> 20] } }

\* The values config.COUNTRIES has when a digest is sent.
DigestCountryLists == {<< >>, <<"FR">>, <<"FR", "de">>, <<"IT">>}

\* The databases a digest is drawn from: any of three of the report's holidays
\* (FR 2025-03-01 with a region, de 2025-03-15, de 2025-04-01).
DigestDatabases == { SavedDb(Db(<< >>, EmptyBag), K) : K \in SUBSET {2, 3, 5} }

\* fetch_holidays_for_period: the returned dict as the list of its items,
\* [country_code, holidays], in key order; {} on sqlite3.Error. regions is
\* the bag of the joined region names.
fetch_holidays_for_period(hs, rs, start_date, end_date, db_ok, config_countries) ==
    IF ~db_ok THEN << >>
    ELSE
      LET rows == { i \in DOMAIN hs : Between(Chars[hs[i].holiday_date], start_date, end_date) }
          keys == { hs[i].country_code : i \in rows }
                  \cup { config_countries[k] : k \in DOMAIN config_countries }
          sorted == SortedTuples({ <<c, c, c>> : c \in keys })
          holidays_of(c) ==
              LET tuples == SortedTuples({ <<c, hs[i].holiday_date, hs[i].holiday_name>>
                                           : i \in { j \in rows : hs[j].country_code = c } })
              IN  [ n \in DOMAIN tuples |->
                      [date |-> tuples[n][2], name |-> tuples[n][3],
                       regions |-> RegionBag(rs, HolidayIds(hs, c, tuples[n][2], tuples[n][3]))] ]
      IN  [ k \in DOMAIN sorted |->
              [country_code |-> sorted[k][1], holidays |-> holidays_of(sorted[k][1])] ]

\* format_holidays_as_html: one block per item of the dict, titled with the
\* upper-cased country code; `if not holidays` writes the "none found" line
\* in place of the list.
format_holidays_as_html(holidays_by_country) ==
    [ k \in DOMAIN holidays_by_country |->
        [title |-> PyUpper(Chars[holidays_by_country[k].country_code]),
         none_found |-> holidays_by_country[k].holidays = << >>,
         items |-> holidays_by_country[k].holidays] ]

NoResult ==
    [keys |-> {}, success |-> FALSE, error |-> "", sent_count |-> 0, total_recipients |-> 0]

\* The test is recipients is None, which a list never is.
recipients_is_none(r) == FALSE

\* not recipients
not_recipients(r) == r = << >>

InitMail ==
    /\ recipients \in RecipientLists
    /\ mail_pc = "idle"
    /\ mail_args = << >>
    /\ db_reads = 0
    /\ fetched = ""
    /\ smtp_attempts = 0
    /\ success_count = 0
    /\ sent_index = 1
    /\ email_result = NoResult
    /\ smtp_log = << >>
    /\ digest = << >>

\* The sender of the specifications that send no mail.
QuietMail ==
    /\ recipients = << >>
    /\ mail_pc = "idle"
    /\ mail_args = << >>
    /\ db_reads = 0
    /\ fetched = ""
    /\ smtp_attempts = 0
    /\ success_count = 0
    /\ sent_index = 1
    /\ email_result = NoResult
    /\ smtp_log = << >>
    /\ digest = << >>

\* send_holiday_email_to_all up to its loop: the test of the recipient list,
\* then fetch_holidays_for_period (one read of the database, which returns {}
\* on sqlite3.Error) and the formatting of the letter.
SendHolidayEmailToAll(args, db_ok) ==
    /\ mail_pc = "idle"
    /\ mail_args' = args
    /\ IF not_recipients(recipients)
       THEN /\ email_result' = [keys |-> {"success", "error"}, success |-> FALSE,
                                error |-> "Spisok poluchateley pust.",
                                sent_count |-> 0, total_recipients |-> 0]
            /\ mail_pc' = "returned"
            /\ UNCHANGED <<db_reads, fetched, digest>>
       ELSE /\ db_reads' = db_reads + 1
            /\ fetched' = IF db_ok THEN "rows" ELSE "sqlite3.Error"
            /\ digest' = format_holidays_as_html(
                             fetch_holidays_for_period(holidays, regions, args[3], args[4],
                                                       db_ok, countries))
            /\ mail_pc' = "sending"
            /\ UNCHANGED email_result
    /\ success_count' = 0
    /\ sent_index' = 1
    /\ smtp_log' = << >>
    /\ UNCHANGED <<recipients, smtp_attempts>>
    /\ UNCHANGED <<saveVars, batchVars, passVars, chatVars, clockVars, reportVars, sourceVars, clientVars, jobVars>>

\* A loop that counts every attempt, delivered or not.
CountAttempt(n, sent) == n + 1

\* if _send_email(...): success_count += 1
CountSent(n, sent) == IF sent THEN n + 1 ELSE n

\* One iteration of the loop: _send_email opens one SMTP connection and
\* returns False on any exception.
SendEmail(sent) ==
    /\ mail_pc = "sending"
    /\ sent_index <= Len(recipients)
    /\ smtp_attempts' = smtp_attempts + 1
    /\ smtp_log' = Append(smtp_log, [to |-> recipients[sent_index], sent |-> sent])
    /\ success_count' = CountSent(success_count, sent)
    /\ sent_index' = sent_index + 1
    /\ UNCHANGED <<recipients, mail_pc, mail_args, db_reads, fetched, email_result, digest>>
    /\ UNCHANGED <<saveVars, batchVars, passVars, chatVars, clockVars, reportVars, sourceVars, clientVars, jobVars>>

\* The loop is over: the success outcome.
ReturnSent ==
    /\ mail_pc = "sending"
    /\ sent_index > Len(recipients)
    /\ email_result' = [keys |-> {"success", "sent_count", "total_recipients"},
                        success |-> TRUE, error |-> "",
                        sent_count |-> success_count,
                        total_recipients |-> Len(recipients)]
    /\ mail_pc' = "returned"
    /\ UNCHANGED <<recipients, mail_args, db_reads, fetched, smtp_attempts,
                   success_count, sent_index, smtp_log, digest>>
    /\ UNCHANGED <<saveVars, batchVars, passVars, chatVars, clockVars, reportVars, sourceVars, clientVars, jobVars>>

NextMail ==
    \/ \E args \in MailPeriods, db_ok \in BOOLEAN : SendHolidayEmailToAll(args, db_ok)
    \/ \E sent \in BOOLEAN : SendEmail(sent)
    \/ ReturnSent

(***************************************************************************)
(* The API-Ninjas source: services.py, HolidayService._get_from_ninjas.    *)
(***************************************************************************)

MaxEntries == 2

\* The entries of non_working_days: keys is the set of keys the entry holds.
\* date is a text (in the month, in another month, in another year, empty,
\* not ISO); reasons is a list of strings.
EntryKeys == {"date", "reasons", "holiday_name"}
EntryDates ==
    { <<"2", "0", "2", "5", "-", "0", "3", "-", "0", "8">>, <<"2", "0", "2", "5", "-", "0", "4", "-", "0", "8">>, <<"2", "0", "2", "4", "-", "0", "3", "-", "0", "8">>, <<>>, <<"0", "8", ".", "0", "3", ".", "2", "0", "2", "5">> }
EntryReasons ==
    { << >>, <<"weekend">>, <<"public holiday">>, <<"public holiday", "weekend">> }
Entries ==
    { [keys |-> K,
       date |-> IF "date" \in K THEN dt ELSE << >>,
       reasons |-> IF "reasons" \in K THEN rs ELSE << >>,
       holiday_name |-> IF "holiday_name" \in K THEN "Womens Day" ELSE ""]
      : K \in SUBSET EntryKeys, dt \in EntryDates, rs \in EntryReasons }

\* What _get_from_api returned: [] after a network or decode failure, a dict
\* without the key non_working_days, or a dict with the list of entries.
NinjasData ==
    { [kind |-> k, non_working_days |-> << >>] : k \in {"failed", "no_key"} }
    \cup { [kind |-> "days", non_working_days |-> e]
           : e \in UNION { [1..n -> Entries] : n \in 0..MaxEntries } }

\* The (year, month) pairs of the period, as get_next_date_for_job renders them.
NinjasPeriods == { <<<<"2", "0", "2", "5">>, <<"0", "3">>>>, <<<<"2", "0", "2", "5">>, <<"0", "4">>>> }

\* text[a:b]
Slice(text, a, b) == SubSeq(text, a + 1, IF b < Len(text) THEN b ELSE Len(text))

\* int(text) raises ValueError
IntRaises(text) == text = << >> \/ ~AllDigits(text)

\* A filter on the month alone.
MonthMatches(holiday_date, year, month) ==
    PyInt(Slice(holiday_date, 5, 7)) = PyInt(month)

\* int(holiday_date[5:7]) == int(month) and int(holiday_date[:4]) == int(year)
MonthAndYearMatch(holiday_date, year, month) ==
    /\ PyInt(Slice(holiday_date, 5, 7)) = PyInt(month)
    /\ PyInt(Slice(holiday_date, 0, 4)) = PyInt(year)

\* The `and` chain up to the int() calls: the date and the reasons are truthy
\* and "weekend" is not an element of reasons.
Eligible(entry) ==
    /\ entry.date # << >>
    /\ entry.reasons # << >>
    /\ \A i \in DOMAIN entry.reasons : entry.reasons[i] # "weekend"

\* The loop over non_working_days: the list built, or the ValueError of an
\* int() call that leaves the function.
RECURSIVE NinjasLoop(_, _, _, _)
NinjasLoop(entries, year, month, found) ==
    IF entries = << >> THEN [raised |-> FALSE, holidays |-> found]
    ELSE LET entry == Head(entries)
         IN  IF ~Eligible(entry)
             THEN NinjasLoop(Tail(entries), year, month, found)
             ELSE IF IntRaises(Slice(entry.date, 5, 7))
             THEN [raised |-> TRUE, holidays |-> << >>]
             ELSE IF PyInt(Slice(entry.date, 5, 7)) # PyInt(month)
             THEN NinjasLoop(Tail(entries), year, month, found)
             ELSE IF IntRaises(Slice(entry.date, 0, 4))
             THEN [raised |-> TRUE, holidays |-> << >>]
             ELSE IF MonthAndYearMatch(entry.date, year, month)
             THEN NinjasLoop(Tail(entries), year, month,
                     Append(found,
                        [date |-> entry.date,
                         name |-> IF "holiday_name" \in entry.keys THEN entry.holiday_name
                                  ELSE "Unknown Holiday"]))
             ELSE NinjasLoop(Tail(entries), year, month, found)

\* _get_from_ninjas after _get_from_api has returned data.
get_from_ninjas(data, year, month) ==
    IF data.kind # "days" THEN [raised |-> FALSE, holidays |-> << >>]
    ELSE NinjasLoop(data.non_working_days, year, month, << >>)

NoCall ==
    [called |-> FALSE, data |-> [kind |-> "failed", non_working_days |-> << >>],
     year |-> << >>, month |-> << >>, raised |-> FALSE, holidays |-> << >>]

QuietSource == ninjas_call = NoCall

\* Any payload of the source.
InitSource == \E data \in NinjasData : ninjas_call = [NoCall EXCEPT !.data = data]

\* One call of _get_from_ninjas on the payload.
GetFromNinjas(period) ==
    /\ ~ninjas_call.called
    /\ LET r == get_from_ninjas(ninjas_call.data, period[1], period[2])
       IN  ninjas_call' = [ninjas_call EXCEPT !.called = TRUE, !.year = period[1],
                             !.month = period[2], !.raised = r.raised,
                             !.holidays = r.holidays]
    /\ UNCHANGED <<saveVars, batchVars, passVars, chatVars, clockVars, mailVars, reportVars,
                   clientVars, jobVars>>

NextSource == \E period \in NinjasPeriods : GetFromNinjas(period)

(***************************************************************************)
(* The LLM client: services.py, NiktaAPIClient.authenticate, run_scenario, *)
(* and HolidayService.__init__. Both operations are wrapped by             *)
(* utils.retry_on_exception, which is not among the sources: the wrapper   *)
(* is modelled from the specification's section 4.2.                       *)
(***************************************************************************)

\* Attempts the retry wrapper makes per call.
MaxAttempts == 2

\* Bearer tokens the service hands out.
Tokens == {1, 2}

\* How POST /login can be answered: no answer, an unsuccessful status, a body
\* that is no JSON, a JSON body that is no object, an object without a token,
\* an object with a token.
LoginResponses ==
    { [kind |-> k, token |-> 0] : k \in {"network", "http_error", "not_json", "not_object", "no_token"} }
    \cup { [kind |-> "token", token |-> t] : t \in Tokens }

\* How POST /run can be answered: 200 with a JSON body, 401, another
\* unsuccessful status, no answer, 200 with a body that is no JSON.
RunResponses == {"200", "401", "500", "network", "not_json"}

\* The body of authenticate on one answer: the session's Authorization header
\* (0: absent) and the exception raised.
authenticate(authorization, response) ==
    CASE response.kind \in {"network", "http_error"} ->
             [authorization |-> authorization, raised |-> "APIError"]
      [] response.kind = "not_json" ->
             [authorization |-> authorization, raised |-> "APIError"]
      [] response.kind = "not_object" ->
             [authorization |-> authorization, raised |-> "AttributeError"]
      [] response.kind = "no_token" ->
             [authorization |-> authorization, raised |-> "APIError"]
      [] OTHER ->
             [authorization |-> response.token, raised |-> "none"]

\* The failure kinds both wrappers are given.
RetriedExceptions == {"APIError", "RequestException"}

RetryForever(raised, attempts) == raised \in RetriedExceptions

\* retry_on_exception after an attempt that raised: another attempt is made
\* while the failure is of a caught kind and attempts are left; otherwise the
\* failure is re-raised.
RetryAgain(raised, attempts) == raised \in RetriedExceptions /\ attempts < MaxAttempts

NeverChecked(client) == FALSE

\* `"Authorization" not in self.session.headers`
NotAuthenticated(client) == client.authorization = 0

ReadOnlyOnFailure(raised) ==
    [service |-> "constructed", result |-> "returned"]

\* The end of HolidayService.__init__: `except APIError` raises RuntimeError,
\* any other exception of authenticate propagates as it is.
ServiceAfterAuthenticate(raised) ==
    CASE raised = "none" -> [service |-> "constructed", result |-> "returned"]
      [] raised = "APIError" -> [service |-> "raised", result |-> "RuntimeError"]
      [] OTHER -> [service |-> "raised", result |-> raised]

\* Where run_scenario's body goes after the answer to its request: it returns
\* the JSON, re-authenticates (401) or raises.
AfterRunResponse(status) ==
    CASE status = "200" -> "return"
      [] status = "401" -> "authenticate"
      [] OTHER -> "raise"

NoClient ==
    [authorization |-> 0, op |-> "none", at |-> "idle", run_attempts |-> 0,
     auth_attempts |-> 0, authenticate_calls |-> 0, posts |-> << >>,
     attempt_raised |-> "none", result |-> "none", service |-> "none"]

QuietClient == nikta_client = NoClient

\* A client that is new or holds a token of an earlier authentication.
InitClient == \E t \in {0} \cup Tokens : nikta_client = [NoClient EXCEPT !.authorization = t]

\* An execution of run_scenario's body raised: the wrapper runs the body again
\* or re-raises to the caller.
RunAttemptEnds(client, raised) ==
    IF RetryAgain(raised, client.run_attempts)
    THEN [client EXCEPT !.at = "run", !.attempt_raised = raised]
    ELSE [client EXCEPT !.at = "idle", !.attempt_raised = raised, !.result = raised]

\* The wrapped authenticate returned or raised: back in its caller, which is
\* the caller of the client, HolidayService.__init__, or the 401 branch of
\* run_scenario, whose next statement raises APIError.
AuthenticateEnds(client, raised) ==
    CASE client.op = "authenticate" ->
             [client EXCEPT !.at = "idle",
                            !.result = IF raised = "none" THEN "returned" ELSE raised]
      [] client.op = "construct" ->
             [client EXCEPT !.at = "idle",
                            !.result = ServiceAfterAuthenticate(raised).result,
                            !.service = ServiceAfterAuthenticate(raised).service]
      [] OTHER ->
             RunAttemptEnds(client, IF raised = "none" THEN "APIError" ELSE raised)

\* The caller calls authenticate().
CallAuthenticate ==
    /\ nikta_client.at = "idle"
    /\ nikta_client' = [nikta_client EXCEPT !.op = "authenticate", !.at = "login",
                           !.run_attempts = 0, !.auth_attempts = 0,
                           !.authenticate_calls = 1, !.posts = << >>,
                           !.attempt_raised = "none", !.result = "none"]
    /\ UNCHANGED <<saveVars, batchVars, passVars, chatVars, clockVars, mailVars, reportVars,
                   sourceVars, jobVars>>

\* The caller calls run_scenario().
CallRunScenario ==
    /\ nikta_client.at = "idle"
    /\ nikta_client' = [nikta_client EXCEPT !.op = "run_scenario", !.at = "run",
                           !.run_attempts = 0, !.auth_attempts = 0,
                           !.authenticate_calls = 0, !.posts = << >>,
                           !.attempt_raised = "none", !.result = "none"]
    /\ UNCHANGED <<saveVars, batchVars, passVars, chatVars, clockVars, mailVars, reportVars,
                   sourceVars, jobVars>>

\* HolidayService(): the counters, _init_db, a new client, authenticate().
\* The object is the caller's only when __init__ returns.
ConstructService(db_ok) ==
    /\ nikta_client.at = "idle"
    /\ NewService
    /\ nikta_client' =
         IF ~db_ok
         THEN [NoClient EXCEPT !.op = "construct", !.result = "sqlite3.Error", !.service = "raised"]
         ELSE [NoClient EXCEPT !.op = "construct", !.at = "login", !.authenticate_calls = 1]
    /\ UNCHANGED <<saveVars, batchVars, chatVars, clockVars, mailVars, reportVars,
                   sourceVars, jobVars>>

\* One execution of authenticate's body: POST /login and its answer.
Login(response) ==
    /\ nikta_client.at = "login"
    /\ LET r == authenticate(nikta_client.authorization, response)
           sent == [nikta_client EXCEPT
                      !.posts = Append(@, [url |-> "login", authorization |-> nikta_client.authorization,
                                           answer |-> response.kind]),
                      !.auth_attempts = @ + 1,
                      !.authorization = r.authorization]
       IN  nikta_client' = IF RetryAgain(r.raised, sent.auth_attempts)
                           THEN sent
                           ELSE AuthenticateEnds(sent, r.raised)
    /\ UNCHANGED <<saveVars, batchVars, passVars, chatVars, clockVars, mailVars, reportVars,
                   sourceVars, jobVars>>

\* One execution of run_scenario's body: the header check, POST /run and its
\* answer.
Run(status) ==
    /\ nikta_client.at = "run"
    /\ LET started == [nikta_client EXCEPT !.run_attempts = @ + 1, !.auth_attempts = 0,
                                           !.authenticate_calls = 0, !.posts = << >>,
                                           !.attempt_raised = "none"]
           sent == [started EXCEPT
                      !.posts = Append(@, [url |-> "run", authorization |-> nikta_client.authorization,
                                           answer |-> status])]
       IN  nikta_client' =
             IF NotAuthenticated(nikta_client)
             THEN RunAttemptEnds(started, "APIError")
             ELSE CASE AfterRunResponse(status) = "return" ->
                           [sent EXCEPT !.at = "idle", !.attempt_raised = "returned",
                                        !.result = "returned"]
                    [] AfterRunResponse(status) = "authenticate" ->
                           [sent EXCEPT !.at = "login", !.authenticate_calls = 1]
                    [] OTHER -> RunAttemptEnds(sent, "APIError")
    /\ UNCHANGED <<saveVars, batchVars, passVars, chatVars, clockVars, mailVars, reportVars,
                   sourceVars, jobVars>>

NextClient ==
    \/ CallAuthenticate
    \/ CallRunScenario
    \/ \E db_ok \in BOOLEAN : ConstructService(db_ok)
    \/ \E response \in LoginResponses : Login(response)
    \/ \E status \in RunResponses : Run(status)

(***************************************************************************)
(* The monthly job: bot.py, scheduled_monthly_task and                     *)
(* run_monthly_data_collection.                                            *)
(***************************************************************************)

MONTHLY_JOB_DAY == 20

\* datetime.now(tz).day
DaysOfMonth == 1..31

FromTargetDay(current_day) == current_day >= MONTHLY_JOB_DAY

\* `if current_day == config.MONTHLY_JOB_DAY`
IsJobDay(current_day) == current_day = MONTHLY_JOB_DAY

\* The tick in progress or last made: the day it found, whether it entered
\* run_monthly_data_collection, where the job is, what it has sent to the
\* channel, what it has called, the exceptions that reached the job's outer
\* except clause and whether one left the job.
NoJob ==
    [ticked |-> FALSE, current_day |-> 0, body |-> FALSE, at |-> "idle",
     email_enabled |-> FALSE, sent |-> << >>, service |-> FALSE, passes |-> FALSE,
     report |-> FALSE, email |-> FALSE, raised |-> 0, caught |-> 0, escaped |-> FALSE,
     log |-> << >>]

\* The daily job's last run: the date, how the build went, the text, what was
\* posted, the errors logged by the job and by the builder, the exception
\* that left the job.
NoDaily ==
    [ran |-> FALSE, today |-> "", build |-> "", message_text |-> [none |-> TRUE, kind |-> "", by_country |-> << >>],
     posted |-> << >>, job_errors |-> 0, build_errors |-> 0, raised |-> FALSE]

\* The names main() registers its jobs under.
JobNames == {"daily_holiday_notification", "monthly_data_collection_job"}

\* application.job_queue of a process that has not been started: no job; the
\* run_daily calls of the last start.
NoQueue == [jobs |-> [name \in JobNames |-> 0], starts |-> 0, registered |-> {}, found |-> {}]

QuietJob == job = NoJob /\ daily = NoDaily /\ job_queue = NoQueue

\* config.EMAIL_NOTIFICATIONS_ENABLED is either value.
InitJob ==
    /\ \E enabled \in BOOLEAN : job = [NoJob EXCEPT !.email_enabled = enabled]
    /\ daily = NoDaily
    /\ job_queue = NoQueue

\* context.bot.send_message / send_document: the message is in the channel,
\* or the call raised.
Sends(j, ok, message) ==
    IF ok THEN [j EXCEPT !.sent = Append(@, message), !.log = Append(@, message)] ELSE j

\* What the job did besides sending, in the order of its statements.
Did(j, events) == [j EXCEPT !.log = @ \o events]

\* An exception inside the job's try block: `except Exception` at its end.
Caught(j) == [j EXCEPT !.at = "except", !.raised = @ + 1, !.caught = @ + 1]

\* An exception outside the try block, or inside the except clause.
Escapes(j) == [j EXCEPT !.at = "idle", !.raised = @ + 1, !.escaped = TRUE]

Returns(j) == [j EXCEPT !.at = "idle"]

\* scheduled_monthly_task, called by the job queue once a day.
Tick(current_day) ==
    /\ job.at = "idle"
    /\ UNCHANGED <<daily, job_queue>>
    /\ job' = [NoJob EXCEPT !.ticked = TRUE, !.current_day = current_day,
                            !.email_enabled = job.email_enabled,
                            !.body = IsJobDay(current_day),
                            !.at = IF IsJobDay(current_day) THEN "announce" ELSE "idle"]
    /\ UNCHANGED <<saveVars, batchVars, passVars, chatVars, clockVars, mailVars, reportVars,
                   sourceVars, clientVars>>

\* The opening announcement, before the try block.
Announce(ok) ==
    /\ job.at = "announce"
    /\ UNCHANGED <<daily, job_queue>>
    /\ job' = IF ok THEN [Sends(job, TRUE, "announcement") EXCEPT !.at = "collect"]
              ELSE Escapes(job)
    /\ UNCHANGED <<saveVars, batchVars, passVars, chatVars, clockVars, mailVars, reportVars,
                   sourceVars, clientVars>>

\* How lines 69-102 can end: the country list is empty and the warning is sent
\* or not; HolidayService() raises; the loop ends, every failed pass having
\* been reported; the report of a failed pass raises.
CollectOutcomes == {"empty", "empty_unsent", "no_service", "loop_done", "loop_notice", "notice_unsent"}

Collect(out) ==
    /\ job.at = "collect"
    /\ UNCHANGED <<daily, job_queue>>
    /\ job' = CASE out = "empty" -> Returns(Sends(job, TRUE, "empty_list"))
                [] out = "empty_unsent" -> Caught(job)
                [] out = "no_service" -> Caught(job)
                [] out = "loop_done" ->
                       [Did(job, <<"passes_ended">>) EXCEPT
                          !.service = TRUE, !.passes = TRUE, !.at = "summary"]
                [] out = "loop_notice" ->
                       [Did(Sends(job, TRUE, "country_failed"), <<"passes_ended">>) EXCEPT
                          !.service = TRUE, !.passes = TRUE, !.at = "summary"]
                [] OTHER -> Caught([job EXCEPT !.service = TRUE, !.passes = TRUE])
    /\ UNCHANGED <<saveVars, batchVars, passVars, chatVars, clockVars, mailVars, reportVars,
                   sourceVars, clientVars>>

\* The summary of the economics.
Summary(ok) ==
    /\ job.at = "summary"
    /\ UNCHANGED <<daily, job_queue>>
    /\ job' = IF ok THEN [Sends(job, TRUE, "summary") EXCEPT !.at = "report"]
              ELSE Caught(job)
    /\ UNCHANGED <<saveVars, batchVars, passVars, chatVars, clockVars, mailVars, reportVars,
                   sourceVars, clientVars>>

\* generate_holidays_report, send_document, os.remove; then the e-mail switch
\* and the notice that the mailing starts.
ReportOutcomes == {"sent", "not_generated", "not_sent", "not_removed"}

\* The reports directory after lines 128-140: the file of the period is
\* saved, and removed when nothing raised before os.remove returned.
JobFiles(fs, out) ==
    CASE out = "not_generated" -> fs
      [] out \in {"not_sent", "not_removed"} -> SaveFile(fs, SystemRange, "job")
      [] OTHER -> RemoveFile(SaveFile(fs, SystemRange, "job"), SystemRange)

RemoveThenSend(j, out) ==
    CASE out = "not_generated" -> j
      [] out = "not_sent" -> Did(j, <<"generated", "removed">>)
      [] out = "not_removed" -> Did(j, <<"generated">>)
      [] OTHER -> Sends(Did(j, <<"generated", "removed">>), TRUE, "document")

\* Lines 128-140 up to the statement that raises: generate_holidays_report,
\* send_document inside `with open(...)`, os.remove.
ReportSteps(j, out) ==
    CASE out = "not_generated" -> j
      [] out = "not_sent" -> Did(j, <<"generated">>)
      [] out = "not_removed" -> Sends(Did(j, <<"generated">>), TRUE, "document")
      [] OTHER -> Did(Sends(Did(j, <<"generated">>), TRUE, "document"), <<"removed">>)

Report(out, notice_ok) ==
    /\ job.at = "report"
    /\ UNCHANGED <<daily, job_queue>>
    /\ job' = CASE out = "not_generated" -> Caught(ReportSteps(job, out))
                [] out = "not_sent" -> Caught([ReportSteps(job, out) EXCEPT !.report = TRUE])
                [] out = "not_removed" ->
                       Caught([ReportSteps(job, out) EXCEPT !.report = TRUE])
                [] OTHER ->
                       LET j == [ReportSteps(job, out) EXCEPT !.report = TRUE]
                       IN  IF ~job.email_enabled THEN Returns(j)
                           ELSE IF notice_ok THEN [Sends(j, TRUE, "mailing") EXCEPT !.at = "email"]
                           ELSE Caught(j)
    /\ files' = JobFiles(files, out)
    /\ UNCHANGED <<report, callers>>
    /\ UNCHANGED <<saveVars, batchVars, passVars, chatVars, clockVars, mailVars,
                   sourceVars, clientVars>>

\* The inner try block: send_holiday_email_to_all returns a success or a
\* failure outcome, or raises; the message about the outcome; on any
\* exception of the block the message of its except clause, unprotected.
EmailOutcomes == {"success", "failure", "raised"}

Email(out, notice_ok, critical_ok) ==
    /\ job.at = "email"
    /\ UNCHANGED <<daily, job_queue>>
    /\ LET j == [Did(job, <<"digest">>) EXCEPT !.email = TRUE]
       IN  job' = IF out # "raised" /\ notice_ok
                  THEN Returns(Sends(j, TRUE, IF out = "success" THEN "mail_sent" ELSE "mail_failed"))
                  ELSE IF critical_ok
                  THEN Returns(Sends([j EXCEPT !.raised = @ + 1], TRUE, "mail_critical"))
                  ELSE Caught([j EXCEPT !.raised = @ + 1])
    /\ UNCHANGED <<saveVars, batchVars, passVars, chatVars, clockVars, mailVars, reportVars,
                   sourceVars, clientVars>>

\* The job's except clause: the failure report to the channel.
ReportFailure(ok) ==
    /\ job.at = "except"
    /\ UNCHANGED <<daily, job_queue>>
    /\ job' = IF ok THEN Returns(Sends(job, TRUE, "failure_report"))
              ELSE Escapes(job)
    /\ UNCHANGED <<saveVars, batchVars, passVars, chatVars, clockVars, mailVars, reportVars,
                   sourceVars, clientVars>>

\* _create_holidays_message: what can go wrong inside its try block, all of it
\* under `except Exception`. A read that fails with sqlite3.Error is caught
\* inside get_holidays_for_date, which then returns {}.
BuildOutcomes == {"built", "no_service", "read_failed", "format_failed"}

\* The dates datetime.now(tz).date() is drawn from.
DailyDates == {"2025-03-01", "2025-03-15", "2025-12-25"}

\* _create_holidays_message building a text although the service failed.
MessageDespiteFailure(hs, rs, target_date, build) ==
    IF build = "format_failed" THEN [none |-> TRUE, kind |-> "", by_country |-> << >>]
    ELSE LET holidays_by_country == IF build = "built" THEN GetHolidaysForDate(hs, rs, target_date)
                                    ELSE << >>
         IN  IF DOMAIN holidays_by_country = {}
             THEN [none |-> FALSE, kind |-> "not_found", by_country |-> << >>]
             ELSE [none |-> FALSE, kind |-> "holidays", by_country |-> holidays_by_country]

\* _create_holidays_message: the text for the date, or None.
create_holidays_message(hs, rs, target_date, build) ==
    IF build \in {"no_service", "format_failed"}
    THEN [none |-> TRUE, kind |-> "", by_country |-> << >>]
    ELSE LET holidays_by_country == IF build = "read_failed" THEN << >>
                                    ELSE GetHolidaysForDate(hs, rs, target_date)
         IN  IF DOMAIN holidays_by_country = {}
             THEN [none |-> FALSE, kind |-> "not_found", by_country |-> << >>]
             ELSE [none |-> FALSE, kind |-> "holidays", by_country |-> holidays_by_country]

\* send_daily_holidays_notification
SendDailyHolidaysNotification(date_today, build, send_ok) ==
    /\ LET message_text == create_holidays_message(holidays, regions, date_today, build)
       IN  daily' = [ran |-> TRUE, today |-> date_today, build |-> build,
                     message_text |-> message_text,
                     posted |-> IF ~message_text.none /\ send_ok THEN <<message_text>> ELSE << >>,
                     job_errors |-> IF message_text.none THEN 1 ELSE 0,
                     build_errors |-> IF build \in {"no_service", "format_failed"} THEN 1 ELSE 0,
                     raised |-> ~message_text.none /\ ~send_ok]
    /\ UNCHANGED <<job, job_queue>>
    /\ UNCHANGED <<saveVars, batchVars, passVars, chatVars, clockVars, mailVars, reportVars,
                   sourceVars, clientVars>>

\* The starts of the process that are followed.
MaxStarts == 3

\* run_daily without looking for a job of the name first.
RegisterAlways(jobs, name, configured, time_ok) ==
    IF configured /\ time_ok THEN [jobs EXCEPT ![name] = @ + 1] ELSE jobs

\* `if not job_queue.get_jobs_by_name(name)`: run_daily(..., name=name), which
\* adds the job unless the configured time does not parse (ValueError, caught).
RegisterIfAbsent(jobs, name, configured, time_ok) ==
    IF configured /\ jobs[name] = 0 /\ time_ok THEN [jobs EXCEPT ![name] = @ + 1] ELSE jobs

\* main(): the application is built, its queue is empty or holds what a
\* previous process left, and the two jobs are registered in turn.
Startup(restored, monthly_enabled, daily_time_ok, monthly_time_ok) ==
    /\ job.at = "idle"
    /\ job_queue.starts < MaxStarts
    /\ LET before == IF restored THEN job_queue.jobs ELSE NoQueue.jobs
           with_daily == RegisterIfAbsent(before, "daily_holiday_notification", TRUE, daily_time_ok)
           after == RegisterIfAbsent(with_daily, "monthly_data_collection_job",
                                     monthly_enabled, monthly_time_ok)
       IN  job_queue' = [jobs |-> after, starts |-> job_queue.starts + 1,
                         registered |-> { name \in JobNames : after[name] > before[name] },
                         found |-> { name \in JobNames : before[name] > 0 }]
    /\ UNCHANGED <<job, daily>>
    /\ UNCHANGED <<saveVars, batchVars, passVars, chatVars, clockVars, mailVars, reportVars,
                   sourceVars, clientVars>>

NextDaily ==
    \E date_today \in DailyDates, build \in BuildOutcomes, send_ok \in BOOLEAN :
        SendDailyHolidaysNotification(date_today, build, send_ok)

NextJob ==
    \/ \E current_day \in DaysOfMonth : Tick(current_day)
    \/ \E ok \in BOOLEAN : Announce(ok)
    \/ \E out \in CollectOutcomes : Collect(out)
    \/ \E ok \in BOOLEAN : Summary(ok)
    \/ \E out \in ReportOutcomes, notice_ok \in BOOLEAN : Report(out, notice_ok)
    \/ \E out \in EmailOutcomes, notice_ok, critical_ok \in BOOLEAN : Email(out, notice_ok, critical_ok)
    \/ \E ok \in BOOLEAN : ReportFailure(ok)

\* The process is started and restarted; the daily check of the monthly job
\* fires while its job is in the queue.
NextScheduler ==
    \/ \E restored, monthly_enabled, daily_time_ok, monthly_time_ok \in BOOLEAN :
           Startup(restored, monthly_enabled, daily_time_ok, monthly_time_ok)
    \/ /\ job_queue.jobs["monthly_data_collection_job"] > 0
       /\ NextJob

vars == <<holidays, regions, last_save, last_query,
          countries, driver, pc, idx, attempted, outcomes,
          grand_total_tokens, grand_total_price, raw_holidays, fetches, holidays_to_check,
          cand, llm, last_check, verdicts, pass_rows_before,
          holiday_conv, report_conv, user_data, last_update,
          today, job_period, mail_period, main_period,
          recipients, mail_pc, mail_args, db_reads, fetched, smtp_attempts,
          success_count, sent_index, email_result, smtp_log, digest, report, files, callers, ninjas_call,
          nikta_client, job, daily, job_queue>>

\* The batch: any country list, an empty database.
Init ==
    /\ InitSave
    /\ InitBatch
    /\ InitPass
    /\ InitChat
    /\ QuietClock
    /\ QuietMail
    /\ QuietReport
    /\ QuietSource
    /\ QuietClient
    /\ QuietJob

\* An empty database, an idle chat, no batch.
InitQuiet ==
    /\ InitSave
    /\ QuietBatch
    /\ InitPass
    /\ InitChat
    /\ QuietClock
    /\ QuietMail
    /\ QuietReport
    /\ QuietSource
    /\ QuietClient
    /\ QuietJob

\* The steps of a batch whose LLM responses carry economics of E, is_holiday
\* values of F and verified payloads of P.
BatchNext(E, F, P) ==
    \/ \E d \in {"bot", "main"}, announce_ok, warn_ok, auth_ok \in BOOLEAN :
          StartRun(d, announce_ok, warn_ok, auth_ok)
    \/ \E ninjas, nager, open \in SourceResults, send_ok \in BOOLEAN :
          StartCountry(ninjas, nager, open, send_ok)
    \/ \E out \in DedupOutcomes(E), send_ok \in BOOLEAN : Dedup(out, send_ok)
    \/ \E out \in CheckerOutcomes(E, F, P) : FactCheck(out)
    \/ EndLoop

\* Every response costs the same; every is_holiday value and payload occurs.
FlatEconomics == {[has |-> TRUE, tokens |-> 50, total_price |-> 5]}

Next == BatchNext(FlatEconomics, IsHolidayValues, CheckerPayloads \cup {EmptyPayload})

Spec == Init /\ [][Next]_vars

\* Every economics occurs; the fact-check answers true or false for one holiday.
EconFlags == {PyBool(TRUE), PyString(<<"f", "a", "l", "s", "e">>)}
EconPayloads == { p \in CheckerPayloads : p.keys = {"date", "name"} /\ p.date = "2025-12-25" }

NextEcon == BatchNext(Economics, EconFlags, EconPayloads)

SpecEcon == Init /\ [][NextEcon]_vars

SpecSave == InitQuiet /\ [][NextSave]_vars

SpecRegions == InitQuiet /\ [][NextRegions]_vars

SpecChat == InitQuiet /\ [][NextChat]_vars

\* The clock at any date.
InitDate ==
    /\ InitSave
    /\ QuietBatch
    /\ InitPass
    /\ InitChat
    /\ InitClock
    /\ QuietMail
    /\ QuietReport
    /\ QuietSource
    /\ QuietClient
    /\ QuietJob

SpecDate == InitDate /\ [][NextDate]_vars

\* Any recipient list, any configured country list, any of the digest's databases.
InitSender ==
    /\ \E db \in DigestDatabases : holidays = db.holidays /\ regions = db.regions
    /\ last_save = NoSave
    /\ last_query = NoQuery
    /\ countries \in DigestCountryLists
    /\ driver = "none"
    /\ pc = "idle"
    /\ idx = 1
    /\ attempted = << >>
    /\ outcomes = << >>
    /\ InitPass
    /\ InitChat
    /\ QuietClock
    /\ InitMail
    /\ QuietReport
    /\ QuietSource
    /\ QuietClient
    /\ QuietJob

SpecMail == InitSender /\ [][NextMail]_vars

\* Any database of the report's holidays.
InitReporter ==
    /\ InitReport
    /\ QuietBatch
    /\ InitPass
    /\ InitChat
    /\ QuietClock
    /\ QuietMail
    /\ QuietSource
    /\ QuietClient
    /\ QuietJob

SpecReport == InitReporter /\ [][NextReport]_vars

\* The job and the chat handler sharing the reports directory.
SpecFiles == InitQuiet /\ [][NextFiles]_vars

\* Any payload of the API-Ninjas source.
InitNinjas ==
    /\ InitSave
    /\ QuietBatch
    /\ InitPass
    /\ InitChat
    /\ QuietClock
    /\ QuietMail
    /\ QuietReport
    /\ InitSource
    /\ QuietClient
    /\ QuietJob

SpecNinjas == InitNinjas /\ [][NextSource]_vars

\* A client that is new or authenticated; the counters are those of the
\* HolidayService instance constructed before, if any.
InitService ==
    /\ InitSave
    /\ QuietBatch
    /\ grand_total_tokens \in {0, 50}
    /\ grand_total_price \in {0, 5}
    /\ raw_holidays = NoRaw
    /\ fetches = NoFetch
    /\ holidays_to_check = 0
    /\ cand = 1
    /\ llm = NoLlm
    /\ last_check = NoCheck
    /\ verdicts = << >>
    /\ pass_rows_before = 0
    /\ InitChat
    /\ QuietClock
    /\ QuietMail
    /\ QuietReport
    /\ QuietSource
    /\ InitClient
    /\ QuietJob

SpecClient == InitService /\ [][NextClient]_vars

\* The job queue's daily check, the e-mail notifications switched on or off.
InitScheduler ==
    /\ InitSave
    /\ QuietBatch
    /\ InitPass
    /\ InitChat
    /\ QuietClock
    /\ QuietMail
    /\ QuietReport
    /\ QuietSource
    /\ QuietClient
    /\ InitJob

SpecJob == InitScheduler /\ [][NextJob]_vars

SpecScheduler == InitScheduler /\ [][NextScheduler]_vars

\* The daily notification over the databases of the reports.
InitNotifier ==
    /\ InitReport
    /\ QuietBatch
    /\ InitPass
    /\ InitChat
    /\ QuietClock
    /\ QuietMail
    /\ QuietSource
    /\ QuietClient
    /\ QuietJob

SpecDaily == InitNotifier /\ [][NextDaily]_vars

\* The running system: batches, and between any two of their steps a date
\* query, a report or a chat update.
NextSystem ==
    \/ BatchNext(FlatEconomics, EconFlags, EconPayloads)
    \/ \E d \in HolidayDates : Query(d)
    \/ \E db_ok \in BOOLEAN : GenerateHolidaysReport(SystemRange, db_ok)

SpecSystem == Init /\ [][NextSystem]_vars

(***************************************************************************)
(* Claims about the storage, checked under SpecSave.                       *)
(***************************************************************************)

IsComplete(holiday_data) == {"date", "name"} \subseteq holiday_data.keys

\* C1: after any sequence of _save_verified_holiday calls the holidays table
\* holds at most one row per (country_code, holiday_date, holiday_name) and the
\* regions table at most one row per (holiday_id, region_name); a call that
\* re-saves an existing triple adds no holidays row, one whose pairs all exist
\* adds no regions row, and neither ends in a logged database error.
C1_Uniqueness ==
    /\ \A i, j \in DOMAIN holidays : holidays[i] = holidays[j] => i = j
    /\ \A r \in BagToSet(regions) : CopiesIn(r, regions) = 1
    /\ (last_save.called /\ last_save.existed) =>
          /\ Len(holidays) = last_save.rows_before
          /\ last_save.log \in {"saved", "no_regions"}
          /\ last_save.pairs_existed =>
                BagCardinality(regions) = last_save.region_rows_before

\* C1 witness: a triple that was present, with its region pair present, has
\* been saved again, together with a second holiday in the table.
C1_Witness ==
    /\ last_save.called /\ last_save.existed /\ last_save.had_regions
    /\ last_save.holiday_data.regions # << >> /\ last_save.pairs_existed
    /\ Len(holidays) >= 2

SavedWithoutRegions ==
    /\ last_save.called
    /\ IsComplete(last_save.holiday_data)
    /\ last_save.holiday_data.regions = << >>

LastSavedIds ==
    HolidayIds(holidays, last_save.country_code, last_save.holiday_data.date,
               last_save.holiday_data.name)

QueriedLastSaved ==
    last_query.called /\ last_query.target_date = last_save.holiday_data.date

\* C2 as stated: a holiday saved with an empty or absent regions list is a
\* holidays row, has zero region rows, and a later get_holidays_for_date for
\* its date maps its name to an empty region list.
C2_Original ==
    SavedWithoutRegions =>
        /\ LastSavedIds # {}
        /\ \A x \in BagToSet(regions) : x.holiday_id \notin LastSavedIds
        /\ QueriedLastSaved =>
              last_query.result[last_save.country_code][last_save.holiday_data.name] = EmptyBag

\* C2 amended: a holiday saved with an empty or absent regions list is a
\* holidays row (the early return commits the insert) and the save adds no
\* regions row; when no earlier save of the triple wrote a region, the holiday
\* has zero region rows and a later get_holidays_for_date for its date maps its
\* name to an empty region list.
C2_NationwideSave ==
    SavedWithoutRegions =>
        /\ LastSavedIds # {}
        /\ last_save.log = "no_regions"
        /\ BagCardinality(regions) = last_save.region_rows_before
        /\ QueriedLastSaved =>
              /\ last_save.country_code \in DOMAIN last_query.result
              /\ last_save.holiday_data.name \in DOMAIN last_query.result[last_save.country_code]
        /\ ~last_save.had_regions =>
              /\ \A x \in BagToSet(regions) : x.holiday_id \notin LastSavedIds
              /\ QueriedLastSaved =>
                    last_query.result[last_save.country_code][last_save.holiday_data.name] = EmptyBag

\* C2 witness: a new triple was saved with no regions while another holiday
\* of the same date has a region, and the date was queried afterwards.
C2_Witness ==
    /\ SavedWithoutRegions /\ ~last_save.existed
    /\ QueriedLastSaved
    /\ last_query.result[last_save.country_code][last_save.holiday_data.name] = EmptyBag
    /\ \E c \in DOMAIN last_query.result :
          \E n \in DOMAIN last_query.result[c] : last_query.result[c][n] # EmptyBag

(***************************************************************************)
(* Claims about the pass and the batch.                                    *)
(***************************************************************************)

LastAttempted == attempted[Len(attempted)]

PassCompleted ==
    /\ pc = "loop"
    /\ outcomes # << >>
    /\ Len(outcomes) = Len(attempted)
    /\ outcomes[Len(outcomes)] = "completed"

RECURSIVE BagSum(_, _, _)
BagSum(B, S, field) ==
    IF S = {} THEN 0
    ELSE LET x == CHOOSE y \in S : TRUE
         IN  CopiesIn(x, B) * (IF field = "tokens" THEN x.tokens ELSE x.total_price)
             + BagSum(B, S \ {x}, field)

\* C4 (checked under SpecEcon): the counters of the instance start at zero and
\* always equal the sums of the tokens and total_price values of the responses
\* run_scenario returned to it.
C4_CountersAreSums ==
    /\ pc = "idle" => (grand_total_tokens = 0 /\ grand_total_price = 0)
    /\ grand_total_tokens = BagSum(llm, BagToSet(llm), "tokens")
    /\ grand_total_price = BagSum(llm, BagToSet(llm), "total_price")

\* C4 witness: one country, one dedup response of 100 tokens and two
\* fact-check responses of 50 tokens, the counters at 200 tokens and 0.020 $.
C4_Witness ==
    /\ PassCompleted
    /\ Len(attempted) = 1
    /\ Len(verdicts) = 2
    /\ BagCardinality(llm) = 3
    /\ CopiesIn([has |-> TRUE, tokens |-> 100, total_price |-> 10], llm) = 1
    /\ CopiesIn([has |-> TRUE, tokens |-> 50, total_price |-> 5], llm) = 2
    /\ grand_total_tokens = 200
    /\ grand_total_price = 20

BatchOver ==
    \/ pc \in {"summary", "done"}
    \/ pc = "failed" /\ outcomes # << >>

\* C5 as stated (checked under Spec): in a batch every configured country is
\* attempted exactly once, in list order, however an earlier country's
\* processing ended.
C5_EveryCountryAttempted ==
    /\ Len(attempted) <= Len(countries)
    /\ \A i \in DOMAIN attempted : attempted[i] = countries[i]
    /\ BatchOver => attempted = countries

(***************************************************************************)
(* Claims about the chat flows, checked under SpecChat.                    *)
(***************************************************************************)

\* The last update was a text message that is no command and no date.
InvalidDateText ==
    /\ last_update.handler # ""
    /\ ~IsCommand(last_update.text)
    /\ ~StrpTime(last_update.text).ok

EarlierEndDate ==
    /\ last_update.handler # ""
    /\ last_update.report_before = GET_END_DATE
    /\ last_update.user_data_before.has_start
    /\ StrpTime(last_update.text).ok
    /\ DateTimeLt(StrpTime(last_update.text),
                  StrpTime(last_update.user_data_before.start_date))

\* C7 (checked under SpecChat): a valid end date earlier than the stored start
\* date keeps flow B in AWAITING_END, keeps user_data and starts no report;
\* generate_holidays_report is called only by handle_end_date in AWAITING_END,
\* with the stored start date and an end date that is not earlier than it.
C7_InvertedRangeRejected ==
    /\ EarlierEndDate =>
         /\ report_conv = GET_END_DATE
         /\ user_data = last_update.user_data_before
         /\ ~last_update.generated
    /\ last_update.generated =>
         /\ last_update.handler = "handle_end_date"
         /\ last_update.report_before = GET_END_DATE
         /\ last_update.user_data_before.has_start
         /\ StrpTime(last_update.text).ok
         /\ ~DateTimeLt(StrpTime(last_update.text),
                        StrpTime(last_update.user_data_before.start_date))
         /\ last_update.args = <<last_update.user_data_before.start_date, last_update.text>>

\* C7 witness: the start date 2025-05-10 is stored and the end date 2025-05-01
\* has been turned down by handle_end_date.
C7_Witness ==
    /\ EarlierEndDate
    /\ last_update.handler = "handle_end_date"
    /\ last_update.user_data_before.start_date = <<"2", "0", "2", "5", "-", "0", "5", "-", "1", "0">>
    /\ last_update.text = <<"2", "0", "2", "5", "-", "0", "5", "-", "0", "1">>
    /\ last_update.said = "end_before_start"
    /\ report_conv = GET_END_DATE

(***************************************************************************)
(* Claims about the next-month computations, checked under SpecDate.       *)
(***************************************************************************)

\* The month after today's, by counting months from year 0.
TargetMonth ==
    LET k == 12 * today.year + (today.month - 1) + 1
    IN  [year |-> k \div 12, month |-> (k % 12) + 1]

\* The number of the day (year, month, day), counted from 1970-01-01, by the
\* 400-year cycle of the calendar.
DayNumber(year, month, day) ==
    LET y == IF month <= 2 THEN year - 1 ELSE year
        era == y \div 400
        yoe == y - era * 400
        mp == IF month > 2 THEN month - 3 ELSE month + 9
        doy == (153 * mp + 2) \div 5 + day - 1
        doe == yoe * 365 + yoe \div 4 - yoe \div 100 + doy
    IN  era * 146097 + doe - 719468

\* first_day and last_day are the ISO texts of the first and the last day of
\* the target month.
BoundsOfTargetMonth(first_day, last_day) ==
    LET f == StrpTime(first_day)
        l == StrpTime(last_day)
        after == [year |-> (12 * TargetMonth.year + TargetMonth.month) \div 12,
                  month |-> ((12 * TargetMonth.year + TargetMonth.month) % 12) + 1]
    IN  /\ Len(first_day) = 10 /\ Len(last_day) = 10
        /\ f = [ok |-> TRUE, year |-> TargetMonth.year, month |-> TargetMonth.month, day |-> 1]
        /\ l.ok /\ l.year = TargetMonth.year /\ l.month = TargetMonth.month
        /\ DayNumber(l.year, l.month, l.day) + 1 = DayNumber(after.year, after.month, 1)

\* text is the zero-padded two-digit rendering of the target month.
TwoDigitTargetMonth(text) ==
    /\ Len(text) = 2
    /\ AllDigits(text)
    /\ PyInt(text) = TargetMonth.month

\* C8 as stated (checked under SpecDate): both functions return the month as a
\* zero-padded two-digit string.
C8_BothReturnPaddedMonth ==
    /\ job_period.called => TwoDigitTargetMonth(job_period.value[2])
    /\ mail_period.called => TwoDigitTargetMonth(mail_period.value[2])

\* C8 (checked under SpecDate): for every current date both functions return
\* the first and the last day of the next calendar month as ISO texts, January
\* of the next year after December; get_next_date_for_job returns the year as
\* its decimal text and the month as a zero-padded two-digit text, and
\* get_next_month_dates returns the year as an int and the month as its name
\* in the table of month names.
C8_NextMonth ==
    /\ job_period.called =>
         /\ BoundsOfTargetMonth(job_period.value[3], job_period.value[4])
         /\ AllDigits(job_period.value[1])
         /\ PyInt(job_period.value[1]) = TargetMonth.year
         /\ TwoDigitTargetMonth(job_period.value[2])
    /\ mail_period.called =>
         /\ BoundsOfTargetMonth(mail_period.value[3], mail_period.value[4])
         /\ mail_period.value[1] = TargetMonth.year
         /\ mail_period.value[2] = month_names[TargetMonth.month + 1]
    /\ (job_period.called /\ today.year = 2025 /\ today.month = 12) =>
         job_period.value = <<<<"2", "0", "2", "6">>, <<"0", "1">>, <<"2", "0", "2", "6", "-", "0", "1", "-", "0", "1">>, <<"2", "0", "2", "6", "-", "0", "1", "-", "3", "1">>>>
    /\ (mail_period.called /\ today.year = 2025 /\ today.month = 12) =>
         /\ mail_period.value[3] = <<"2", "0", "2", "6", "-", "0", "1", "-", "0", "1">>
         /\ mail_period.value[4] = <<"2", "0", "2", "6", "-", "0", "1", "-", "3", "1">>

\* C8 witness: both functions have run on a day of December 2025 and returned
\* January 2026.
C8_Witness ==
    /\ today.year = 2025 /\ today.month = 12
    /\ job_period.called /\ mail_period.called
    /\ job_period.value[3] = <<"2", "0", "2", "6", "-", "0", "1", "-", "0", "1">>
    /\ job_period.value[4] = <<"2", "0", "2", "6", "-", "0", "1", "-", "3", "1">>
    /\ mail_period.value = <<2026, month_names[2], <<"2", "0", "2", "6", "-", "0", "1", "-", "0", "1">>, <<"2", "0", "2", "6", "-", "0", "1", "-", "3", "1">>>>

\* C9 as stated (checked under SpecDate): what main.get_next_date returns is
\* the next calendar month of the current date, which is what
\* bot.get_next_date_for_job returns for the same date.
C9_CollectorPeriodIsNextMonth ==
    main_period.called =>
        /\ BoundsOfTargetMonth(main_period.value[3], main_period.value[4])
        /\ main_period.value = get_next_date_for_job(today)

(***************************************************************************)
(* Claims about the email digest, checked under SpecMail.                  *)
(***************************************************************************)

\* C10 (checked under SpecMail): with an empty recipient list the call returns
\* at once a failure outcome, success false with an error text, having opened
\* no SMTP connection and read nothing from the database.
C10_EmptyRecipients ==
    (recipients = << >> /\ mail_pc # "idle") =>
        /\ mail_pc = "returned"
        /\ email_result.keys = {"success", "error"}
        /\ email_result.success = FALSE
        /\ email_result.error # ""
        /\ smtp_attempts = 0
        /\ db_reads = 0

\* C10 witness: the call has returned for an empty recipient list.
C10_Witness ==
    /\ recipients = << >>
    /\ mail_pc = "returned"
    /\ mail_args # << >>
    /\ ~email_result.success

\* C11: for a non-empty recipient list send_holiday_email_to_all makes one
\* _send_email call per recipient, in list order, whatever the earlier calls
\* returned, and its outcome is the success dict with sent_count the number of
\* calls that delivered and total_recipients the length of the list.
C11_OneSendPerRecipient ==
    /\ Len(smtp_log) <= Len(recipients)
    /\ \A i \in DOMAIN smtp_log : smtp_log[i].to = recipients[i]
    /\ (mail_pc = "returned" /\ recipients # << >>) =>
          /\ Len(smtp_log) = Len(recipients)
          /\ email_result.keys = {"success", "sent_count", "total_recipients"}
          /\ email_result.success
          /\ email_result.sent_count =
                Cardinality({ i \in DOMAIN smtp_log : smtp_log[i].sent })
          /\ email_result.total_recipients = Len(recipients)

\* The first send failed, the second was still made and delivered.
C11_Witness ==
    /\ mail_pc = "returned"
    /\ Len(recipients) = 2
    /\ smtp_log = << [to |-> recipients[1], sent |-> FALSE],
                     [to |-> recipients[2], sent |-> TRUE] >>
    /\ email_result.sent_count = 1

\* lo <= x <= hi of the calendar dates three texts denote.
BetweenDates(x, lo, hi) ==
    /\ ~DateTimeLt(StrpTime(x), StrpTime(lo))
    /\ ~DateTimeLt(StrpTime(hi), StrpTime(x))

\* The country a row of the sheet belongs to: the value of the merged cell of
\* column A that covers it.
RowCountry(k) ==
    report.rows[CHOOSE j \in 1..k :
                   /\ report.rows[j].a # << >>
                   /\ \A i \in (j + 1)..k : report.rows[i].a = << >>].a

\* The rows of the sheet that show the holiday with id i.
RowsOf(i) ==
    { k \in DOMAIN report.rows :
        /\ report.rows[k].kind = "holiday"
        /\ report.rows[k].name = holidays[i].holiday_name
        /\ report.rows[k].date = holidays[i].holiday_date
        /\ RowCountry(k) = PyUpper(Chars[holidays[i].country_code]) }

InRange(i) == BetweenDates(Chars[holidays[i].holiday_date], report.start_date, report.end_date)

ZeroPadded(text) == Len(text) = 10

\* C12: a report for [start, end] that read the database shows every persisted
\* holiday whose date d satisfies start <= d <= end exactly once, as one row,
\* and no holiday outside the range, whatever its country.
C12_ReportCoversRange ==
    (report.called /\ report.db_ok) =>
        \A i \in DOMAIN holidays : Cardinality(RowsOf(i)) = IF InRange(i) THEN 1 ELSE 0

\* The same for the ranges given as zero-padded ISO texts.
C12_PaddedRangeCovered ==
    (report.called /\ report.db_ok /\ ZeroPadded(report.start_date)
        /\ ZeroPadded(report.end_date)) =>
        \A i \in DOMAIN holidays : Cardinality(RowsOf(i)) = IF InRange(i) THEN 1 ELSE 0

C12_PaddedWitness ==
    /\ report.called /\ report.db_ok
    /\ report.start_date = <<"2", "0", "2", "5", "-", "0", "3", "-", "0", "1">>
    /\ Len(holidays) = 6
    /\ Len(report.rows) = 4

\* C13: when no persisted holiday falls in the requested range the sheet is the
\* header row plus exactly one informational row merged over the four
\* columns, and the call returns the report path.
C13_EmptyRangeReport ==
    (report.called /\ \A i \in DOMAIN holidays : ~InRange(i)) =>
        /\ report.rows = <<HeaderRow, InfoRow>>
        /\ report.merged = {[start_row |-> 2, start_column |-> 1, end_row |-> 2, end_column |-> 4]}
        /\ report.path = <<report.start_date, report.end_date>>

\* The same for the ranges given as zero-padded ISO texts.
C13_PaddedEmptyRange ==
    (report.called /\ ZeroPadded(report.start_date) /\ ZeroPadded(report.end_date)
        /\ \A i \in DOMAIN holidays : ~InRange(i)) =>
        /\ report.rows = <<HeaderRow, InfoRow>>
        /\ report.merged = {[start_row |-> 2, start_column |-> 1, end_row |-> 2, end_column |-> 4]}
        /\ report.path = <<report.start_date, report.end_date>>

C13_PaddedWitness ==
    /\ report.called /\ report.db_ok
    /\ report.start_date = <<"2", "0", "2", "5", "-", "0", "4", "-", "0", "1">>
    /\ Len(holidays) = 5
    /\ report.rows = <<HeaderRow, InfoRow>>

\* The date of an entry names a day of the requested month of the requested year.
InRequestedMonth(entry) ==
    LET dt == StrpTime(entry.date)
    IN  /\ dt.ok
        /\ dt.month = PyInt(ninjas_call.month)
        /\ dt.year = PyInt(ninjas_call.year)

\* The entries the claim keeps: a date, non-empty reasons without "weekend",
\* and the requested month and year.
Kept ==
    { i \in DOMAIN ninjas_call.data.non_working_days :
        LET entry == ninjas_call.data.non_working_days[i]
        IN  /\ entry.date # << >>
            /\ entry.reasons # << >>
            /\ "weekend" \notin { entry.reasons[k] : k \in DOMAIN entry.reasons }
            /\ InRequestedMonth(entry) }

Fetched == {fetches.ninjas, fetches.nager, fetches.open}

\* C15: a network or decode failure of one source gives the empty list for
\* that source only: the three sources are all queried, the pass goes on to
\* dedup with the lists of the others when one of them has a holiday, and
\* returns as a pass without data otherwise; it is not aborted.
C15_FailedSourceIsEmptyList ==
    (fetches # NoFetch /\ "malformed" \notin Fetched) =>
        /\ "not_queried" \notin Fetched
        /\ IF "items" \in Fetched
           THEN /\ pc = "dedup"
                /\ raw_holidays.ninjas_holidays =
                      (IF fetches.ninjas = "items" THEN "items" ELSE "empty")
                /\ raw_holidays.nager_holidays =
                      (IF fetches.nager = "items" THEN "items" ELSE "empty")
                /\ raw_holidays.open_holidays =
                      (IF fetches.open = "items" THEN "items" ELSE "empty")
           ELSE /\ pc = "loop"
                /\ Len(outcomes) = Len(attempted)
                /\ outcomes[Len(outcomes)] = "no_data"

\* The second source failed; dedup is about to get the lists of the others.
C15_Witness ==
    /\ pc = "dedup"
    /\ fetches = [ninjas |-> "items", nager |-> "failed", open |-> "empty"]
    /\ raw_holidays = [ninjas_holidays |-> "items", nager_holidays |-> "empty",
                       open_holidays |-> "empty"]

\* C16: a pass whose three sources all return empty lists returns normally
\* without an LLM call, without persisting a row and with the economics
\* counters as they were.
C16_NoDataPassIsInert ==
    [][ (attempted' # attempted /\ attempted' # << >>
            /\ {fetches'.ninjas, fetches'.nager, fetches'.open} \subseteq {"empty", "failed"}) =>
          /\ outcomes' = Append(outcomes, "no_data")
          /\ pc' = "loop"
          /\ idx' = idx + 1
          /\ llm' = llm
          /\ grand_total_tokens' = grand_total_tokens
          /\ grand_total_price' = grand_total_price
          /\ holidays' = holidays
          /\ regions' = regions ]_vars

\* The second country had no data, after a first country that cost tokens.
C16_Witness ==
    /\ pc = "loop"
    /\ Len(attempted) = 2
    /\ outcomes = <<"completed", "no_data">>
    /\ fetches = [ninjas |-> "empty", nager |-> "empty", open |-> "empty"]
    /\ grand_total_tokens > 0
    /\ holidays # << >>

DedupFailures == {"dedup_api_error", "dedup_decode_error", "dedup_raised"}

\* The last pass has ended in its dedup step.
DedupFailed ==
    /\ outcomes # << >>
    /\ Len(outcomes) = Len(attempted)
    /\ outcomes[Len(outcomes)] \in DedupFailures

\* C17: a failure in the dedup step (the LLM call fails, or its result does
\* not decode into an object with a holidays list) ends the processing of
\* that country only: no candidate is fact-checked, no row is persisted, and
\* the batch is not stopped.
C17_DedupFailureIsLocal ==
    DedupFailed =>
        /\ verdicts = << >>
        /\ CountryRows(holidays, LastAttempted) = pass_rows_before
        /\ BatchOver => attempted = countries

\* What holds of C17: nothing is fact-checked or persisted, and the batch
\* goes on unless the job's notice of the failure cannot be sent.
C17_NoCheckNoRow ==
    DedupFailed =>
        /\ verdicts = << >>
        /\ CountryRows(holidays, LastAttempted) = pass_rows_before
        /\ (BatchOver /\ attempted # countries) =>
              (driver = "bot" /\ outcomes[Len(outcomes)] = "dedup_raised")

\* C18 (checked under SpecEcon, where every parsed object reads true or false,
\* so that the verdict "other" is a failed verification: APIError, a response
\* that is no dict or holds no JSON object, or a save that raises): a failed
\* candidate is skipped and leaves no row; the loop is then at the next
\* candidate, a later candidate verified true is persisted, and the pass
\* returns normally after the last one.
C18_CandidateFailureIsLocal ==
    /\ pc = "check" => (cand = Len(verdicts) + 1 /\ cand <= holidays_to_check)
    /\ verdicts # << >> =>
         /\ pc # "failed"
         /\ pc # "check" =>
              /\ Len(verdicts) = holidays_to_check
              /\ outcomes[Len(outcomes)] = "completed"
         /\ verdicts[Len(verdicts)] = "other" => Len(holidays) = last_check.rows_before
         /\ verdicts[Len(verdicts)] = "true" =>
              HolidayIds(holidays, LastAttempted, last_check.data.date,
                         last_check.data.name) # {}

\* The first candidate's verification failed, the second was verified and saved.
C18_Witness ==
    /\ PassCompleted
    /\ verdicts = <<"other", "true">>
    /\ last_check.saved
    /\ pass_rows_before = 0
    /\ CountryRows(holidays, LastAttempted) = 1

\* C19 (checked under SpecSave): a save whose payload lacks the date or the
\* name is aborted for that record: the KeyError is caught inside
\* _save_verified_holiday, and the holidays and regions tables, which only
\* ever grow, hold as many rows as before the call.
C19_IncompletePayloadAborts ==
    (last_save.called /\ ~IsComplete(last_save.holiday_data)) =>
        /\ last_save.log = "KeyError"
        /\ Len(holidays) = last_save.rows_before
        /\ BagCardinality(regions) = last_save.region_rows_before

\* A payload with a date and no name, offered to a database that holds a
\* holiday with a region.
C19_Witness ==
    /\ last_save.called
    /\ last_save.holiday_data.keys = {"date"}
    /\ last_save.log = "KeyError"
    /\ Len(holidays) = 1
    /\ BagCardinality(regions) = 1

\* The titles of the country blocks of the digest.
DigestTitles == { digest[k].title : k \in DOMAIN digest }

ConfiguredTitles == { PyUpper(Chars[countries[k]]) : k \in DOMAIN countries }

\* The holidays of a country that fall in the period of the call.
InDigestPeriod(c) ==
    { i \in DOMAIN holidays :
        /\ holidays[i].country_code = c
        /\ BetweenDates(Chars[holidays[i].holiday_date], mail_args[3], mail_args[4]) }

\* C20: the digest of a call that read the database has a block for every
\* configured country, with the "none found" line exactly when the country has
\* no holiday in the period, and no block for a country outside the
\* configured list.
C20_DigestScopedToConfig ==
    (mail_pc # "idle" /\ recipients # << >> /\ fetched = "rows") =>
        /\ \A k \in DOMAIN countries :
              \E b \in DOMAIN digest :
                  /\ digest[b].title = PyUpper(Chars[countries[k]])
                  /\ digest[b].none_found <=> InDigestPeriod(countries[k]) = {}
        /\ DigestTitles \subseteq ConfiguredTitles

\* What holds of C20: every configured country has its block, and the other
\* blocks are the countries with a persisted holiday in the period.
C20_ConfiguredAndStored ==
    (mail_pc # "idle" /\ recipients # << >> /\ fetched = "rows") =>
        /\ \A k \in DOMAIN countries :
              \E b \in DOMAIN digest :
                  /\ digest[b].title = PyUpper(Chars[countries[k]])
                  /\ digest[b].none_found <=> InDigestPeriod(countries[k]) = {}
        /\ DigestTitles = ConfiguredTitles
              \cup { PyUpper(Chars[holidays[i].country_code]) :
                       i \in { j \in DOMAIN holidays :
                                 InDigestPeriod(holidays[j].country_code) # {} } }

\* FR is configured and has no holiday in March 2025; de is not configured
\* and has one.
C20_StoredWitness ==
    /\ mail_pc = "returned"
    /\ fetched = "rows"
    /\ countries = <<"FR">>
    /\ Len(digest) = 2
    /\ digest[1].title = <<"F", "R">>
    /\ digest[1].none_found
    /\ digest[2].title = <<"D", "E">>


(***************************************************************************)
(* The LLM client and the construction of the service.                     *)
(***************************************************************************)

\* The call in progress has returned to its caller or raised.
ClientCallOver(op) == nikta_client.op = op /\ nikta_client.at = "idle"

\* The last POST /login of the call was not answered with a token.
AuthenticationFailed ==
    /\ nikta_client.posts # << >>
    /\ nikta_client.posts[Len(nikta_client.posts)].url = "login"
    /\ nikta_client.posts[Len(nikta_client.posts)].answer # "token"

\* C21: HolidayService() either returns an instance whose client carries a
\* bearer token and whose two counters are zero, or raises; while __init__ runs
\* and after it raised there is no instance, and a failed authentication
\* always makes it raise.
C21_ConstructionAllOrNothing ==
    nikta_client.op = "construct" =>
      /\ nikta_client.at # "idle" => nikta_client.service = "none"
      /\ nikta_client.at = "idle" =>
            \/ /\ nikta_client.service = "constructed"
               /\ nikta_client.result = "returned"
               /\ nikta_client.authorization \in Tokens
               /\ grand_total_tokens = 0
               /\ grand_total_price = 0
            \/ /\ nikta_client.service = "raised"
               /\ nikta_client.result \in {"RuntimeError", "AttributeError", "sqlite3.Error"}
      /\ (nikta_client.at = "idle" /\ AuthenticationFailed) => nikta_client.service = "raised"

\* Every attempt to authenticate failed: the constructor raised RuntimeError.
C21_Witness ==
    /\ ClientCallOver("construct")
    /\ Len(nikta_client.posts) = MaxAttempts
    /\ AuthenticationFailed
    /\ nikta_client.service = "raised"
    /\ nikta_client.result = "RuntimeError"


\* The last request of the call in progress was answered with `answer`.
LastAnswer(answer) ==
    /\ nikta_client.posts # << >>
    /\ nikta_client.posts[Len(nikta_client.posts)].answer = answer

\* C26: a call of authenticate or run_scenario through the retry wrapper makes
\* at most MaxAttempts attempts; it raises APIError to its caller only after
\* the last of them failed, never returns normally after a failed last
\* attempt, and a successful attempt is the last one of the call.
C26_RetryIsBounded ==
    /\ nikta_client.run_attempts <= MaxAttempts
    /\ nikta_client.auth_attempts <= MaxAttempts
    /\ ClientCallOver("run_scenario") =>
          /\ nikta_client.result = "APIError" => nikta_client.run_attempts = MaxAttempts
          /\ nikta_client.result = "returned" <=> LastAnswer("200")
          /\ nikta_client.result \in {"APIError", "AttributeError", "returned"}
    /\ ClientCallOver("authenticate") =>
          /\ nikta_client.result = "APIError" => nikta_client.auth_attempts = MaxAttempts
          /\ nikta_client.result = "returned" <=> LastAnswer("token")
          /\ nikta_client.result \in {"APIError", "AttributeError", "returned"}
    /\ \A k \in DOMAIN nikta_client.posts :
          nikta_client.posts[k].answer \in {"200", "token"} => k = Len(nikta_client.posts)

\* run_scenario on an authenticated client: every attempt was answered with an
\* error that is no 401, and the call raised APIError after the last one.
C26_Witness ==
    /\ ClientCallOver("run_scenario")
    /\ nikta_client.run_attempts = MaxAttempts
    /\ LastAnswer("500")
    /\ nikta_client.result = "APIError"

\* C28: run_scenario on a client whose session has no Authorization header
\* sends no request, in any of its attempts, and raises APIError.
C28_UnauthenticatedRunFails ==
    (nikta_client.op = "run_scenario" /\ nikta_client.authorization = 0) =>
      /\ nikta_client.posts = << >>
      /\ nikta_client.run_attempts > 0 => nikta_client.attempt_raised = "APIError"
      /\ nikta_client.at = "idle" => nikta_client.result = "APIError"

\* The call on a new client has raised APIError after its last attempt.
C28_Witness ==
    /\ ClientCallOver("run_scenario")
    /\ nikta_client.authorization = 0
    /\ nikta_client.run_attempts = MaxAttempts
    /\ nikta_client.posts = << >>
    /\ nikta_client.result = "APIError"

\* An execution of run_scenario's body that sent its request has ended.
RequestOver ==
    /\ nikta_client.op = "run_scenario"
    /\ nikta_client.at \in {"run", "idle"}
    /\ nikta_client.posts # << >>

\* The requests of the execution after its POST /run are all POST /login.
OneRunRequest ==
    /\ nikta_client.posts[1].url = "run"
    /\ \A k \in DOMAIN nikta_client.posts : k > 1 => nikta_client.posts[k].url = "login"

\* C29: a request answered with 401 is followed by exactly one call of
\* authenticate and is then reported as failed with APIError, whether that
\* call succeeded or not, without a second POST /run in the same execution;
\* a request answered otherwise is followed by no authentication.
C29_ReauthenticateThenFail ==
    RequestOver =>
      /\ OneRunRequest
      /\ nikta_client.posts[1].answer = "401" =>
            /\ nikta_client.authenticate_calls = 1
            /\ Len(nikta_client.posts) > 1
            /\ nikta_client.attempt_raised = "APIError"
      /\ nikta_client.posts[1].answer # "401" =>
            /\ nikta_client.authenticate_calls = 0
            /\ Len(nikta_client.posts) = 1

\* What the 401 branch does: one call of authenticate, no second POST /run in
\* the same execution, the header refreshed when a login succeeded, and the
\* execution raises: APIError, or the AttributeError of a login answer that
\* is JSON but no object.
C29_ReauthenticateThenRaise ==
    RequestOver =>
      /\ OneRunRequest
      /\ nikta_client.posts[1].answer = "401" =>
            /\ nikta_client.authenticate_calls = 1
            /\ Len(nikta_client.posts) \in 2..(1 + MaxAttempts)
            /\ nikta_client.attempt_raised \in {"APIError", "AttributeError"}
            /\ nikta_client.attempt_raised = "AttributeError" <=> LastAnswer("not_object")
            /\ LastAnswer("token") => nikta_client.authorization \in Tokens
      /\ nikta_client.posts[1].answer # "401" =>
            /\ nikta_client.authenticate_calls = 0
            /\ Len(nikta_client.posts) = 1

(***************************************************************************)
(* The lifetime of the holiday rows.                                       *)
(***************************************************************************)

\* C27: in every step of the running system the holiday rows that exist stay
\* as they are, in place; a step that changes the table is the fact-check
\* step of a pass whose verdict was true, and it adds one row.
C27_HolidaysOnlyAdded ==
    [][ /\ Len(holidays') >= Len(holidays)
        /\ \A i \in DOMAIN holidays : holidays'[i] = holidays[i]
        /\ holidays' # holidays =>
              /\ pc = "check"
              /\ Len(verdicts') = Len(verdicts) + 1
              /\ verdicts'[Len(verdicts')] = "true"
              /\ last_check'.saved
              /\ Len(holidays') = Len(holidays) + 1 ]_vars

\* Two passes have each left a row, and a date query and a report have read
\* the table since.
C27_Witness ==
    /\ Len(holidays) = 2
    /\ last_query.called
    /\ report.called
    /\ pc = "done"

(***************************************************************************)
(* The order of the steps of a pass and of a batch.                        *)
(***************************************************************************)

\* A pass is between its source requests and its return.
PassInProgress == pc \in {"dedup", "check"}

\* Where a batch that has started stands: the countries attempted are the
\* first of the list, in order, each but the one in progress with its outcome;
\* the dedup call is due only with all three sources queried and no candidate
\* checked; during the fact-checks the candidates before cand, and only they,
\* have their verdict.
StepsInOrder ==
    /\ Len(attempted) <= Len(countries)
    /\ \A k \in DOMAIN attempted : attempted[k] = countries[k]
    /\ PassInProgress => Len(attempted) = idx /\ Len(outcomes) = idx - 1
    /\ pc = "loop" => Len(attempted) = idx - 1 /\ Len(outcomes) = idx - 1
    /\ pc = "dedup" =>
          /\ "not_queried" \notin {fetches.ninjas, fetches.nager, fetches.open}
          /\ verdicts = << >>
          /\ cand = 1
    /\ pc = "check" =>
          /\ cand \in 1..holidays_to_check
          /\ Len(verdicts) = cand - 1

\* C30: every step keeps the order: a pass begins only when none is in
\* progress, with the next country of the list; the dedup call is made once,
\* after the sources, and is never returned to from the fact-checks; verdicts
\* come one candidate at a time in list order, and a row is written in the
\* step of its own candidate's fact-check, before the next one.
C30_PassStepsInOrder ==
    [][ /\ StepsInOrder'
        /\ attempted' # attempted =>
              ~PassInProgress /\ attempted' = Append(attempted, countries[idx])
        /\ (pc' = "dedup" /\ pc # "dedup") => attempted' # attempted
        /\ (pc' = "check" /\ pc # "check") => pc = "dedup"
        /\ (verdicts' # verdicts /\ verdicts' # << >>) =>
              /\ pc = "check"
              /\ Len(verdicts') = Len(verdicts) + 1
              /\ cand' = cand + 1
        /\ holidays' # holidays => Len(verdicts') = Len(verdicts) + 1 ]_vars

\* The pass of the second country has saved its first candidate and is at the
\* second; the pass of the first country has ended with a row.
C30_Witness ==
    /\ pc = "check"
    /\ idx = 2
    /\ cand = 2
    /\ verdicts = <<"true">>
    /\ Len(outcomes) = 1
    /\ Len(holidays) = 2

(***************************************************************************)
(* The chat commands.                                                      *)
(***************************************************************************)

\* The last update was /cancel, taken by a conversation's fallback, and the
\* callback returned (the conversation that took it has ended).
CancelCompleted ==
    /\ last_update.handler = "cancel_conversation"
    /\ IF last_update.holiday_before # END THEN holiday_conv = END ELSE report_conv = END

\* C22: after /cancel issued while a flow was not idle, the scratch state is
\* empty and every flow that was not idle is idle.
C22_CancelResetsEitherFlow ==
    CancelCompleted =>
      /\ user_data = NoUserData
      /\ last_update.holiday_before # END => holiday_conv = END
      /\ last_update.report_before # END => report_conv = END

\* What /cancel does: the scratch state is emptied in every case, and the
\* first of the two conversations that is not idle ends when the confirmation
\* is sent.
C22_CancelEndsFirstFlow ==
    last_update.handler = "cancel_conversation" =>
      /\ user_data = NoUserData
      /\ \/ last_update.holiday_before # END
         \/ last_update.report_before # END
      /\ last_update.holiday_before # END => report_conv = last_update.report_before
      /\ CancelCompleted /\ last_update.holiday_before = END => report_conv = END


\* C23: after /start both flows are idle, whatever state they were in, so that
\* no handler of a date input takes the next message.
C23_StartResetsConversation ==
    last_update.handler = "start" =>
      /\ holiday_conv = END
      /\ report_conv = END
      /\ \A text \in Texts :
            Route(text) \notin {"handle_specific_date", "handle_start_date", "handle_end_date"}

\* What /start does: the greeting is sent by the application's own handler
\* and both conversations and the scratch state are as they were.
C23_StartLeavesConversations ==
    last_update.handler = "start" =>
      /\ last_update.said = "greeting"
      /\ holiday_conv = last_update.holiday_before
      /\ report_conv = last_update.report_before
      /\ user_data = last_update.user_data_before


(***************************************************************************)
(* The monthly job.                                                        *)
(***************************************************************************)

\* C24: a daily tick enters run_monthly_data_collection if and only if the
\* day of the month it found is the target day; a tick on any other day has
\* left the job idle, with nothing sent to the channel, no service, no pass,
\* no report and no e-mail.
C24_BodyOnlyOnTargetDay ==
    job.ticked =>
      /\ job.body <=> job.current_day = MONTHLY_JOB_DAY
      /\ ~job.body =>
            /\ job.at = "idle"
            /\ job.sent = << >>
            /\ ~job.service /\ ~job.passes /\ ~job.report /\ ~job.email
            /\ job.raised = 0

\* A tick on the day after the target day: the job has not been entered.
C24_Witness ==
    /\ job.ticked
    /\ job.current_day = MONTHLY_JOB_DAY + 1
    /\ ~job.body
    /\ job.sent = << >>

\* The job of the target day has run to the end of its e-mail step.
C24_JobDayWitness ==
    /\ job.ticked
    /\ job.current_day = MONTHLY_JOB_DAY
    /\ job.body
    /\ job.at = "idle"
    /\ job.email

\* The job has ended with a failure raised in it.
JobFailed == job.body /\ job.at = "idle" /\ job.raised > 0

\* C25: no exception leaves run_monthly_data_collection, and a job in which a
\* failure was raised that no inner handler reported has sent the failure
\* report to the channel.
C25_NoExceptionEscapes ==
    /\ ~job.escaped
    /\ (JobFailed /\ job.raised > Len(SelectSeq(job.sent, LAMBDA m : m = "mail_critical"))) =>
          \E k \in DOMAIN job.sent : job.sent[k] = "failure_report"

\* What the job's outer handler covers: every exception raised between the
\* opening announcement and the failure report reaches it, and the job
\* returns normally when the failure report is sent.
C25_CaughtInsideTry ==
    /\ job.caught <= 1
    /\ (job.at = "idle" /\ job.caught = 1 /\ ~job.escaped) =>
          job.sent # << >> /\ job.sent[Len(job.sent)] = "failure_report"
    /\ job.escaped =>
          \/ job.sent = << >>
          \/ job.caught = 1 /\ job.sent[Len(job.sent)] # "failure_report"


(***************************************************************************)
(* The order of the monthly job's events.                                  *)
(***************************************************************************)

\* The position of the first `event` in the job's log, 0 when it has none.
Pos(event) ==
    IF \E k \in DOMAIN job.log : job.log[k] = event
    THEN CHOOSE k \in DOMAIN job.log :
             job.log[k] = event /\ \A m \in DOMAIN job.log : job.log[m] = event => k <= m
    ELSE 0

\* `later` has not happened, or `earlier` happened before it.
Before(earlier, later) == Pos(later) > 0 => (Pos(earlier) > 0 /\ Pos(earlier) < Pos(later))

\* The messages that report the outcome of the e-mail step.
MailOutcomeMessages == {"mail_sent", "mail_failed", "mail_critical"}

\* C31: in the job's log the end of the passes precedes the summary, the
\* summary the generation of the report, the generation the posting of the
\* document, the posting the removal of the file and the digest; the digest is
\* sent only when enabled and precedes the message about its outcome, which
\* is the last event of a job that returns after its e-mail step.
C31_JobEventsInOrder ==
    /\ Before("passes_ended", "summary")
    /\ Before("summary", "generated")
    /\ Before("generated", "document")
    /\ Before("document", "removed")
    /\ Before("removed", "digest")
    /\ Pos("digest") > 0 => job.email_enabled
    /\ \A m \in MailOutcomeMessages : Before("digest", m)
    /\ (job.at = "idle" /\ job.email /\ job.caught = 0) =>
          job.log[Len(job.log)] \in MailOutcomeMessages

\* A job that ran through every step and reported the digest as sent.
C31_Witness ==
    /\ job.at = "idle"
    /\ job.log = <<"announcement", "passes_ended", "summary", "generated", "document",
                   "removed", "mailing", "digest", "mail_sent">>

\* handle_end_date was given an end date that parses and is not earlier than
\* the stored start date.
ValidEndDate ==
    /\ last_update.handler = "handle_end_date"
    /\ last_update.user_data_before.has_start
    /\ StrpTime(last_update.user_data_before.start_date).ok
    /\ StrpTime(last_update.text).ok
    /\ ~EndBeforeStart(StrpTime(last_update.text),
                       StrpTime(last_update.user_data_before.start_date))

\* C32: with a valid end date not earlier than the stored start date, the
\* report flow is not turned away, the report it generates is for exactly the
\* stored start date and the submitted end date, and when the flow has reached
\* IDLE the file was sent, the report file of that range is no longer in the
\* reports directory and the scratch state is empty.
C32_ReportSentThenRemoved ==
    ValidEndDate =>
        /\ last_update.said \in {"generating", "report"}
        /\ last_update.generated =>
              last_update.args = <<last_update.user_data_before.start_date, last_update.text>>
        /\ (last_update.report_before = GET_END_DATE /\ report_conv = END) =>
              /\ last_update.said = "report"
              /\ last_update.generated
              /\ ~Exists(files, last_update.args)
              /\ user_data = NoUserData

\* The flow completed for a range while a file of an earlier failed send is
\* still in the directory.
C32_Witness ==
    /\ ValidEndDate
    /\ last_update.report_before = GET_END_DATE
    /\ report_conv = END
    /\ last_update.said = "report"
    /\ files # NoFiles
    /\ ~Exists(files, last_update.args)

(***************************************************************************)
(* The daily notification.                                                 *)
(***************************************************************************)

\* The builder did not get through its try block.
BuildFailed == daily.build \in {"no_service", "format_failed"}

C34_AtMostOneJobPerName ==
    /\ \A name \in JobNames : job_queue.jobs[name] <= 1
    /\ job_queue.registered \cap job_queue.found = {}

\* A restart that found both jobs restored and registered none.
C34_Witness ==
    /\ job_queue.starts >= 2
    /\ job_queue.found = JobNames
    /\ job_queue.registered = {}
    /\ \A name \in JobNames : job_queue.jobs[name] = 1

(***************************************************************************)
(* The two conversations and their shared scratch state.                   *)
(***************************************************************************)

\* C35: whenever the report flow waits for the end date the scratch state
\* holds a start date that parses, and handle_end_date is never run with the
\* start date missing.
C35_EndDateHasStartDate ==
    /\ report_conv = GET_END_DATE =>
          (user_data.has_start /\ StrpTime(user_data.start_date).ok)
    /\ last_update.handler = "handle_end_date" => last_update.user_data_before.has_start

\* What holds: the flow enters GET_END_DATE with the start date it has just
\* accepted, only /cancel removes a stored start date while the flow waits,
\* and handle_end_date run without one changes nothing.
C35_StartDateStoredOnEntry ==
    /\ (last_update.handler = "handle_start_date" /\ report_conv = GET_END_DATE) =>
          (user_data.has_start /\ user_data.start_date = last_update.text
             /\ StrpTime(user_data.start_date).ok)
    /\ (report_conv = GET_END_DATE /\ ~user_data.has_start /\ last_update.user_data_before.has_start) =>
          last_update.handler = "cancel_conversation"
    /\ (last_update.handler = "handle_end_date" /\ ~last_update.user_data_before.has_start) =>
          (report_conv = GET_END_DATE /\ user_data = last_update.user_data_before
             /\ ~last_update.generated)

(***************************************************************************)
(* The reports directory under two callers.                                *)
(***************************************************************************)

\* C36: a report file generated for one caller is neither removed nor
\* overwritten by the other before the first has sent it: between generating
\* and opening, the caller's file is in the directory as the caller wrote it,
\* what a caller sends is the file it generated, and no caller finds its file
\* gone.
C36_ReportFileNotShared ==
    \A c \in Callers :
        /\ callers[c].at = "generated" =>
              [path |-> callers[c].path, writer |-> c] \in files
        /\ callers[c].at = "sending" => callers[c].read = c
        /\ callers[c].raised # "FileNotFoundError"

(***************************************************************************)
(* The two flows side by side.                                             *)
(***************************************************************************)

BothFlowsActive == holiday_conv # END /\ report_conv # END

\* C37: at most one of the two flows is not idle at any time.
C37_OneFlowAtATime == ~BothFlowsActive

\* What holds: the report flow is never entered while the holiday flow is
\* active, which takes every text that is no command; the two are active
\* together only after the holidays button was sent during the report flow.
C37_SecondFlowEnteredByButton ==
    /\ (last_update.handler = "start_report_conversation") => last_update.holiday_before = END
    /\ (BothFlowsActive /\ last_update.holiday_before = END) =>
          (last_update.handler = "start_holiday_check_conversation"
             /\ last_update.report_before # END)

\* The last update took the report flow from a waiting state to idle.
ReportFlowEnded == last_update.report_before # END /\ report_conv = END

\* C38: whenever the report flow is idle the scratch state holds no start
\* date, and completion, /cancel and /start each take a waiting report flow
\* to idle with the scratch state empty.
C38_IdleFlowHasNoStartDate ==
    /\ report_conv = END => ~user_data.has_start
    /\ ReportFlowEnded => user_data = NoUserData
    /\ (last_update.handler = "start" /\ last_update.report_before # END) =>
          (report_conv = END /\ user_data = NoUserData)

\* What holds: an idle report flow has no start date, the flow returns to
\* idle only by completion or by /cancel, both with the scratch state empty,
\* and /start leaves the flow and the scratch state as they were.
C38_IdleOnlyByCompletionOrCancel ==
    /\ report_conv = END => ~user_data.has_start
    /\ ReportFlowEnded =>
          /\ user_data = NoUserData
          /\ last_update.handler \in {"handle_end_date", "cancel_conversation"}
    /\ last_update.handler = "start" =>
          (report_conv = last_update.report_before /\ user_data = last_update.user_data_before)

(***************************************************************************)
(* The region rows of a holiday over repeated saves.                       *)
(***************************************************************************)

\* The region names stored for a triple.
RegionNames(hs, rs, country_code, holiday_date, holiday_name) ==
    { x.region_name : x \in { y \in BagToSet(rs) :
          y.holiday_id \in HolidayIds(hs, country_code, holiday_date, holiday_name) } }

Triples == CountryCodes \X HolidayDates \X HolidayNames

ListedRegions(holiday_data) == { holiday_data.regions[k] : k \in DOMAIN holiday_data.regions }

\* One step of the storage, as far as the region sets go: no triple loses a
\* region, the triple saved gains exactly the regions the save lists, and no
\* other triple changes.
RegionsAccumulate ==
    \A t \in Triples :
        LET before == RegionNames(holidays, regions, t[1], t[2], t[3])
            after == RegionNames(holidays', regions', t[1], t[2], t[3])
            saved == /\ last_save'.called
                     /\ last_save'.log \in {"saved", "no_regions"}
                     /\ <<last_save'.country_code, last_save'.holiday_data.date,
                          last_save'.holiday_data.name>> = t
        IN  /\ before \subseteq after
            /\ (last_query'.called \/ ~saved) => after = before
            /\ (~last_query'.called /\ saved) =>
                   after = before \cup ListedRegions(last_save'.holiday_data)

\* C39: the region rows of a holiday only accumulate. Every save of a triple
\* adds the regions it lists to the triple's region set and removes none, so
\* that after any sequence of saves the set is the union of the lists saved:
\* an empty list never makes a regional holiday nationwide, and a nationwide
\* holiday becomes regional with the first save that lists a region.
C39_RegionsOnlyAccumulate == [][RegionsAccumulate]_vars

\* A holiday saved with different lists and then with an empty one still has
\* the regions of both.
C39_Witness ==
    /\ last_save.called
    /\ last_save.log = "no_regions"
    /\ last_save.had_regions
    /\ RegionNames(holidays, regions, last_save.country_code, last_save.holiday_data.date,
                   last_save.holiday_data.name) = {"BY", "BW"}

(***************************************************************************)
(* The economics counters step by step.                                    *)
(***************************************************************************)

\* The outcome the step has appended for a pass that ended.
PassEndedWith(how) ==
    /\ Len(outcomes') = Len(outcomes) + 1
    /\ outcomes'[Len(outcomes')] = how

\* One step of a batch after the service was constructed: the counters move
\* exactly in the steps in which run_scenario returned a response, by the
\* tokens and the price of that response; a call that ended in APIError moves
\* nothing; a dedup response whose result does not decode is counted although
\* the pass ends there.
CountersFollowResponses ==
    pc # "idle" =>
        LET returned == llm' # llm
            unchanged == /\ grand_total_tokens' = grand_total_tokens
                         /\ grand_total_price' = grand_total_price
        IN  /\ ~returned => unchanged
            /\ returned =>
                  \E e \in Economics :
                      /\ llm' = llm (+) SetToBag({e})
                      /\ grand_total_tokens' = grand_total_tokens + e.tokens
                      /\ grand_total_price' = grand_total_price + e.total_price
            /\ PassEndedWith("dedup_api_error") => (~returned /\ unchanged)
            /\ (Len(verdicts') = Len(verdicts) + 1 /\ last_check'.kind = "api_error") =>
                  (~returned /\ unchanged)
            /\ PassEndedWith("dedup_decode_error") => returned

\* C40: an LLM call that ends in failure adds nothing to either counter, a
\* dedup call that returned a response adds its tokens and price even when
\* the result does not decode and the country is aborted, and the counters
\* move exactly when a run_scenario call returns a response.
C40_CountersMoveWithResponses == [][CountersFollowResponses]_vars

\* The first country's pass ended on a dedup result that did not decode, and
\* the response's 100 tokens are in the counters.
C40_Witness ==
    /\ outcomes = <<"dedup_decode_error">>
    /\ BagCardinality(llm) = 1
    /\ grand_total_tokens = 100
    /\ grand_total_price = 10
====
